---- MODULE Spec2Model ----
(***************************************************************************)
(* Model of the extraction-aggregation-reconciliation core of the MSIG     *)
(* declaration generator: DocumentAggregator.aggregate_inbound,            *)
(* match_pdo_to_filename, ReconciliationEngine.reconcile_inbound, the      *)
(* validate() methods of SAPPDOData and InboundShipment, SAPParser and the *)
(* ledger-loading and inbound stages of ProcessingPipeline.                *)
(*                                                                         *)
(* Conventions.  Python None is the string "None" for text fields and      *)
(* NoneNum for numeric fields.  Money is counted in hundredths (1000.00 is *)
(* 100000), so the 0.01 epsilon of validate() is 1.  Text that the code    *)
(* inspects character by character (PDO numbers, sheet names, references,  *)
(* enum values compared with <) is a sequence of character codes.          *)
(***************************************************************************)
EXTENDS Integers, Sequences, FiniteSets, TLC

VARIABLES
    \* ---- DocumentAggregator.aggregate_inbound (one physical document) ----
    focus,          \* which fields the pages of this document populate
    page_results,   \* list of ExtractionResult, in page order
    aggregated,     \* the dictionary returned by aggregate_inbound
    agg_done,       \* aggregate_inbound has returned
    \* ---- match_pdo_to_filename ----
    match_filename,       \* the PDF file name
    match_pdo_data,       \* the ledger: SAPPDOData records in dict order
    match_pdo_numbers,    \* what extract_pdo_numbers(match_filename) returned
    match_result,        \* the list of (pdo_num, SAPPDOData) pairs returned
    match_done,
    \* ---- ReconciliationEngine.reconcile_inbound ----
    recon_engine,   \* the engine: tolerance and auto_apply
    recon_arg,      \* the auto_apply argument of the call
    recon_input,    \* the shipment as it was when the call was made
    recon_shipment, \* the shipment object (mutated in place)
    recon_sap_data, \* the sap_data argument
    recon_result,   \* the ReconciliationResult returned
    recon_done,
    \* ---- validate() of SAPPDOData and InboundShipment ----
    val_kind,       \* which class the record under validation belongs to
    val_pdo,        \* a SAPPDOData
    val_shipment,   \* an InboundShipment
    val_issues,     \* the list validate() returned
    val_done,
    \* ---- ProcessingPipeline ----
    self_sap_data,          \* self.sap_data
    self_inbound_shipments, \* self.inbound_shipments
    progress_errors,        \* progress.errors of the stage that ran last
    shipment_matches,       \* pdo_matches of each shipment built, in order
    validation_result,      \* the dictionary validate_all returned
    calls,                  \* how often each stage has been called
    \* ---- VisionExtractor: the page loop over one document ----
    ext_api_key,    \* settings.api.api_key is configured
    ext_page_count, \* get_page_count(pdf_path)
    ext_outcomes,   \* what the API call of each page gave, in page order
    ext_results,    \* page_results
    \* ---- A session with one ProcessingPipeline ----
    sess_api_key,   \* settings.api.api_key is configured
    sess_sap_data,  \* self.sap_data
    sess_inbound,   \* self.inbound_shipments
    sess_audit,     \* self.audit.entries
    sess_errors,    \* progress.errors of the stage that ran last
    sess_validated, \* for each shipment: validate() has been invoked on it
    sess_exported,  \* for each row of the last export: had it been validated
    sess_last,      \* the last call: its name and how it ended
    \* ---- RateLimiter shared by threads ----
    clock,          \* time.time()
    min_delay,      \* self.min_delay
    last_call_time, \* self.last_call_time
    call_count,     \* self._call_count
    limiter_lock,   \* self._lock: its holder, 0 when free
    wait_pc,        \* where each thread stands in wait() or reset()
    wait_time,      \* the local wait_time of each thread
    wake_time,      \* when the time.sleep of each thread is over
    call_times,     \* the calls recorded since construction or the last reset
    \* ---- AuditTrail shared by threads ----
    audit_entries,  \* self.entries
    audit_lock,     \* self._lock: its holder, 0 when free
    audit_pc,       \* where each thread stands in log() or clear()
    audit_pending,  \* the entry each thread is about to append
    \* ---- _parse_inbound_response: the brand_codes of one response ----
    brand_field,    \* data.get('brand_codes', []) of the response
    brand_result,   \* the ExtractionResult returned
    brand_done,     \* the response has been parsed
    \* ---- normalize_awb_number / normalize_tracking_number ----
    number_text,    \* the identifier as it was read
    normalized_awb,     \* normalize_awb_number(number_text)
    normalized_tracking, \* normalize_tracking_number(number_text)
    norm_done,      \* which of the two has been applied
    \* ---- ProductClassifier.classify ----
    description,    \* the description given to classify
    classification, \* the ClassificationResult returned
    class_done,     \* classify has returned
    \* ---- process_outbound_pdfs ----
    awb_files,      \* the AWB files given to the call
    invoice_files,  \* the invoice files given to the call
    self_outbound_shipments, \* self.outbound_shipments
    outbound_progress, \* progress.errors and progress.warnings of the call
    awb_extractions, \* the local dict awb_extractions
    matched_awbs,   \* the local set matched_awbs
    outbound_done   \* the call has returned

aggVars == <<focus, page_results, aggregated, agg_done>>
matchVars == <<match_filename, match_pdo_data, match_pdo_numbers, match_result, match_done>>
reconVars == <<recon_engine, recon_arg, recon_input, recon_shipment,
               recon_sap_data, recon_result, recon_done>>
valVars == <<val_kind, val_pdo, val_shipment, val_issues, val_done>>
pipeVars == <<self_sap_data, self_inbound_shipments, progress_errors,
              shipment_matches, validation_result, calls>>

extVars == <<ext_api_key, ext_page_count, ext_outcomes, ext_results>>
sessVars == <<sess_api_key, sess_sap_data, sess_inbound, sess_audit, sess_errors,
              sess_validated, sess_exported, sess_last>>
limVars == <<clock, min_delay, last_call_time, call_count, limiter_lock,
             wait_pc, wait_time, wake_time, call_times>>
auditVars == <<audit_entries, audit_lock, audit_pc, audit_pending>>
brandVars == <<brand_field, brand_result, brand_done>>
normVars == <<number_text, normalized_awb, normalized_tracking, norm_done>>
classVars == <<description, classification, class_done>>
outVars == <<awb_files, invoice_files, self_outbound_shipments, outbound_progress,
             awb_extractions, matched_awbs, outbound_done>>
lateVars == <<brandVars, normVars, classVars, outVars>>
moreVars == <<extVars, sessVars, limVars, auditVars, lateVars>>

vars == <<aggVars, matchVars, reconVars, valVars, pipeVars, moreVars>>

\* ------------------------------------------------------------------------
\* Python values
\* ------------------------------------------------------------------------

None == "None"

\* bool(x) for Optional[str]: None and "" are falsy.
Truthy(s) == s # None /\ s # ""

\* Lexicographic < of Python str, on sequences of character codes.
RECURSIVE StrLess(_, _)
StrLess(a, b) ==
    IF b = <<>> THEN FALSE
    ELSE IF a = <<>> THEN TRUE
    ELSE IF Head(a) < Head(b) THEN TRUE
    ELSE IF Head(a) > Head(b) THEN FALSE
    ELSE StrLess(Tail(a), Tail(b))

\* ------------------------------------------------------------------------
\* models/shipment.py enums
\* ------------------------------------------------------------------------

PriorityTypes == {"COURIER_LABEL", "AIR_WAYBILL", "BILL_OF_LADING"}

DocumentType ==
    {"COURIER_LABEL", "AIR_WAYBILL", "COMMERCIAL_INVOICE", "PACKING_LIST",
     "CARGO_PERMIT", "SHIPMENT_REPORT", "PURCHASE_ORDER", "BILL_OF_LADING",
     "OTHER", "UNKNOWN"}

ExtractionConfidence == {"HIGH", "MEDIUM", "LOW"}

\* ExtractionConfidence(str, Enum): .value is the member's string, here as
\* ASCII codes (H=72 I=73 G=71 M=77 E=69 D=68 U=85 L=76 O=79 W=87).
ConfidenceValue(c) ==
    CASE c = "HIGH"   -> <<72, 73, 71, 72>>
      [] c = "MEDIUM" -> <<77, 69, 68, 73, 85, 77>>
      [] c = "LOW"    -> <<76, 79, 87>>

TransportMode == {"COURIER", "AIR", "SEA", "TRUCK", "UNKNOWN"}

\* ------------------------------------------------------------------------
\* Bounds and input domains of the aggregator
\* ------------------------------------------------------------------------

MaxPages == 3

\* Document types of the pages that carry shipping fields: the three priority
\* classes and one ordinary class.
PageDocTypes ==
    {"COURIER_LABEL", "AIR_WAYBILL", "BILL_OF_LADING", "COMMERCIAL_INVOICE"}

\* ExtractionResult with every optional field absent.
EmptyPage(dt, conf) ==
    [document_type |-> dt, confidence |-> conf,
     tracking_or_awb |-> None, ship_date |-> None, mode |-> None,
     flight_numbers |-> <<>>, origin_country |-> None, incoterms |-> None,
     carrier |-> None, vessel_info |-> None, container_number |-> None,
     brand_codes |-> <<>>, raw_response |-> "raw", extraction_errors |-> <<>>]

ScalarFields == {"tracking_or_awb", "ship_date", "mode", "carrier", "origin_country"}

\* Values a page can carry in a scalar shipping field.  ship_date is a date
\* object (never empty); mode is an enum member or None.
FieldValues(f) ==
    CASE f = "tracking_or_awb" -> {None, "", "884602373339", "235-30462681"}
      [] f = "ship_date"       -> {None, "2025-09-23", "2025-10-15"}
      [] f = "mode"            -> {None, "UNKNOWN", "AIR", "SEA"}
      [] f = "carrier"         -> {None, "", "FEDEX", "DHL"}
      [] f = "origin_country"  -> {None, "", "UNITED STATES", "CHINA"}

Focuses == ScalarFields \cup {"confidence", "brand_codes", "flight_numbers", "flight_vessel"}

\* Brand-code lists a page can carry.
PageBrandCodes == {<<>>, <<"NST">>, <<"IFC">>, <<"ZZZ", "NST">>}

\* What a page can carry about the transport: flight numbers, a vessel, a
\* container.
Transport(flights, vessel, container) ==
    [flight_numbers |-> flights, vessel_info |-> vessel, container_number |-> container]

PageTransports ==
    {Transport(<<>>, None, None),
     Transport(<<"SQ321">>, None, None),
     Transport(<<"CX101", "SQ321">>, None, None),
     Transport(<<>>, "EVER GIVEN", None),
     Transport(<<>>, "MSC OSCAR", "MSKU1234567"),
     Transport(<<>>, None, "TCLU7654321")}

WithTransport(page, tr) ==
    [page EXCEPT !.flight_numbers = tr.flight_numbers,
                 !.vessel_info = tr.vessel_info,
                 !.container_number = tr.container_number]

\* The pages of a document of the given focus: only the focus field varies.
PagesFor(f) ==
    IF f \in ScalarFields
    THEN {[EmptyPage(dt, "HIGH") EXCEPT ![f] = v] :
              dt \in PageDocTypes, v \in FieldValues(f)}
    ELSE IF f = "flight_numbers"
    THEN {WithTransport(EmptyPage(dt, "HIGH"), tr) :
              dt \in {"BILL_OF_LADING", "COMMERCIAL_INVOICE"}, tr \in PageTransports}
    ELSE IF f = "flight_vessel"
    THEN {WithTransport([EmptyPage("BILL_OF_LADING", "HIGH") EXCEPT !.mode = m], tr) :
              m \in {None, "SEA", "AIR"},
              tr \in {t \in PageTransports : Len(t.flight_numbers) <= 1}}
    ELSE IF f = "brand_codes"
    THEN {[EmptyPage(dt, "HIGH") EXCEPT !.brand_codes = b] :
              dt \in {"PURCHASE_ORDER", "COMMERCIAL_INVOICE", "AIR_WAYBILL"},
              b \in PageBrandCodes}
    ELSE {[EmptyPage(dt, c) EXCEPT !.extraction_errors =
                                      IF c = "LOW" THEN <<"err">> ELSE <<>>] :
              dt \in {"AIR_WAYBILL", "PURCHASE_ORDER", "UNKNOWN"},
              c \in ExtractionConfidence}

\* ------------------------------------------------------------------------
\* DocumentAggregator.aggregate_inbound
\* ------------------------------------------------------------------------

\* The display string " / ".join(...) is the list of its pieces; the empty
\* list is no display string (the key 'flight_vessel' is not set, or None).
NoDisplay == <<>>

\* The dictionary the function starts from.
InitialAggregated ==
    [tracking_or_awb |-> None, ship_date |-> None, mode |-> None,
     flight_numbers |-> <<>>, vessel_info |-> None, container_number |-> None,
     origin_country |-> None, incoterms |-> None, carrier |-> None,
     brand_codes |-> <<>>, confidence |-> "LOW",
     raw_responses |-> <<>>, errors |-> <<>>, flight_vessel |-> NoDisplay]

is_priority(result) == result.document_type \in PriorityTypes

MergeScalar_IgnoresPriority(current, incoming, usable, prio) ==
    IF usable THEN incoming ELSE current

\* "if result.X: if is_priority or aggregated[X] is None: aggregated[X] = result.X"
MergeScalar(current, incoming, usable, prio) ==
    IF usable /\ (prio \/ current = None) THEN incoming ELSE current

\* "if result.confidence.value < aggregated['confidence'].value"
MergeConfidence(current, incoming) ==
    IF StrLess(ConfidenceValue(incoming), ConfidenceValue(current))
    THEN incoming ELSE current

\* "if result.X and aggregated[X] is None" (incoterms, vessel, container)
MergeFirst(current, incoming) ==
    IF Truthy(incoming) /\ current = None THEN incoming ELSE current

MergeBrands_AnyPage(current, r) == current \o r.brand_codes

\* "if result.brand_codes and result.document_type == DocumentType.PURCHASE_ORDER"
MergeBrands(current, r) ==
    IF r.brand_codes # <<>> /\ r.document_type = "PURCHASE_ORDER"
    THEN current \o r.brand_codes ELSE current

\* One iteration of "for result in results".
AggregateStep(a, r) ==
    [a EXCEPT
       !.raw_responses = Append(@, r.raw_response),
       !.errors = @ \o r.extraction_errors,
       !.confidence = MergeConfidence(@, r.confidence),
       !.tracking_or_awb =
           MergeScalar(@, r.tracking_or_awb, Truthy(r.tracking_or_awb), is_priority(r)),
       !.ship_date = MergeScalar(@, r.ship_date, r.ship_date # None, is_priority(r)),
       !.mode =
           MergeScalar(@, r.mode, r.mode # None /\ r.mode # "UNKNOWN", is_priority(r)),
       !.carrier = MergeScalar(@, r.carrier, Truthy(r.carrier), is_priority(r)),
       !.origin_country =
           MergeScalar(@, r.origin_country, Truthy(r.origin_country), is_priority(r)),
       !.incoterms = MergeFirst(@, r.incoterms),
       !.flight_numbers = @ \o r.flight_numbers,
       !.vessel_info = MergeFirst(@, r.vessel_info),
       !.container_number = MergeFirst(@, r.container_number),
       !.brand_codes = MergeBrands(@, r)]

RECURSIVE AggregateLoop(_, _)
AggregateLoop(a, results) ==
    IF results = <<>> THEN a
    ELSE AggregateLoop(AggregateStep(a, Head(results)), Tail(results))

Range(s) == {s[i] : i \in 1..Len(s)}

\* The lists a Python list(set(xs)) can be: the distinct elements in any order.
SetOrders(S) ==
    {s \in [1..Cardinality(S) -> S] : Range(s) = S}

\* sorted() over the brand codes the pages carry.
BrandOrder == <<"IFC", "NST", "ZZZ">>
SortedBrands(S) == SelectSeq(BrandOrder, LAMBDA b : b \in S)

\* " / ".join(parts), kept as the list of pieces with the separators in it.
RECURSIVE JoinSlash(_)
JoinSlash(parts) ==
    IF Len(parts) <= 1 THEN parts
    ELSE <<Head(parts), " / ">> \o JoinSlash(Tail(parts))

\* The statements after the loop: de-duplication and the display string.
\* flights is the order list(set(...)) happened to produce.
AggregateFinish(a, flights) ==
    LET b == [a EXCEPT !.flight_numbers = flights,
                       !.brand_codes = SortedBrands(Range(a.brand_codes))]
    IN  IF b.mode = "SEA"
        THEN IF Truthy(b.vessel_info)
             THEN [b EXCEPT !.flight_vessel =
                       IF Truthy(b.container_number)
                       THEN <<b.vessel_info, " / ", b.container_number>>
                       ELSE <<b.vessel_info>>]
             ELSE b
        ELSE IF b.flight_numbers # <<>>
             THEN [b EXCEPT !.flight_vessel = JoinSlash(b.flight_numbers)]
             ELSE b

aggregate_inbound(results, flights) ==
    AggregateFinish(AggregateLoop(InitialAggregated, results), flights)

\* ------------------------------------------------------------------------
\* Text.  A string is a sequence of characters: the digits '0'..'9' are the
\* numbers 0..9, any other character is its ASCII code (space 32, '&' 38,
\* ',' 44, 'D' 68, 'O' 79, 'P' 80, ...).
\* ------------------------------------------------------------------------

IsDigit(c) == c \in 0..9

\* \s of the re module, for the characters that occur in file names.
IsSpace(c) == c \in {32, 9}

AllDigits(s) == \A i \in 1..Len(s) : IsDigit(s[i])

\* s[i:i+n] when it lies inside s, else the empty string.
Slice(s, i, n) == IF i >= 1 /\ i + n - 1 <= Len(s) THEN SubSeq(s, i, i + n - 1) ELSE <<>>

\* n digits start at position i of s.
DigitsAt(s, i, n) == i >= 1 /\ i + n - 1 <= Len(s) /\ AllDigits(SubSeq(s, i, i + n - 1))

\* Python "needle in hay".
Contains(hay, needle) ==
    \E i \in 1..(Len(hay) - Len(needle) + 1) :
        SubSeq(hay, i, i + Len(needle) - 1) = needle

\* s[-n:] for len(s) >= n.
LastChars(s, n) == SubSeq(s, Len(s) - n + 1, Len(s))

\* Length of the greedy run of \s characters from position i on.
RECURSIVE SpaceRun(_, _)
SpaceRun(s, i) == IF i <= Len(s) /\ IsSpace(s[i]) THEN 1 + SpaceRun(s, i + 1) ELSE 0

\* Length of the greedy run of \d characters from position i on.
RECURSIVE DigitRun(_, _)
DigitRun(s, i) == IF i <= Len(s) /\ IsDigit(s[i]) THEN 1 + DigitRun(s, i + 1) ELSE 0

\* re.findall(r'(\d{n})', s): the non-overlapping runs of n digits, left to right.
RECURSIVE FindDigitRuns(_, _, _)
FindDigitRuns(s, i, n) ==
    IF i + n - 1 > Len(s) THEN <<>>
    ELSE IF DigitsAt(s, i, n)
         THEN <<SubSeq(s, i, i + n - 1)>> \o FindDigitRuns(s, i + n, n)
         ELSE FindDigitRuns(s, i + 1, n)

\* re.search(r'(\d{n})', s): the leftmost run of n digits, or <<>> for no match.
FirstDigitRun(s, n) ==
    LET runs == FindDigitRuns(s, 1, n) IN IF runs = <<>> THEN <<>> ELSE Head(runs)

\* ------------------------------------------------------------------------
\* utils/helpers.py: extract_pdo_numbers
\* ------------------------------------------------------------------------

PdoDigits == 7

PartialDigits == 3

BaseDigits == 4

\* 'P', 'D', 'O' in either case (re.IGNORECASE).
IsPdoAt(s, i) ==
    /\ i + 2 <= Len(s)
    /\ s[i] \in {80, 112}
    /\ s[i + 1] \in {68, 100}
    /\ s[i + 2] \in {79, 111}

\* re.findall(r'PDO\s*(\d+)', text, re.IGNORECASE) from position i on.
RECURSIVE Pattern1(_, _)
Pattern1(s, i) ==
    IF i > Len(s) THEN <<>>
    ELSE IF IsPdoAt(s, i)
         THEN LET sp == SpaceRun(s, i + 3)
                  nd == DigitRun(s, i + 3 + sp)
              IN  IF nd >= 1
                  THEN <<SubSeq(s, i + 3 + sp, i + 3 + sp + nd - 1)>>
                           \o Pattern1(s, i + 3 + sp + nd)
                  ELSE Pattern1(s, i + 1)
         ELSE Pattern1(s, i + 1)

\* r'(\d{7}),(\d{3}(?:,\d{3})*)' matches at position i.
PartialAt(s, i) ==
    /\ DigitsAt(s, i, PdoDigits)
    /\ i + PdoDigits <= Len(s)
    /\ s[i + PdoDigits] = 44
    /\ DigitsAt(s, i + PdoDigits + 1, PartialDigits)

\* The partial numbers of group 2, read from the comma at position i on.
RECURSIVE PartialList(_, _)
PartialList(s, i) ==
    IF i <= Len(s) /\ s[i] = 44 /\ DigitsAt(s, i + 1, PartialDigits)
    THEN <<SubSeq(s, i + 1, i + PartialDigits)>>
             \o PartialList(s, i + 1 + PartialDigits)
    ELSE <<>>

\* "if partial_pattern:" block: the full number followed by base + partial
\* for every partial number.
Pattern2(s) ==
    LET hits == {i \in 1..Len(s) : PartialAt(s, i)}
    IN  IF hits = {} THEN <<>>
        ELSE LET i == CHOOSE h \in hits : \A k \in hits : h <= k
                 full == SubSeq(s, i, i + PdoDigits - 1)
                 base == SubSeq(full, 1, BaseDigits)
                 parts == PartialList(s, i + PdoDigits)
             IN  <<full>> \o [k \in 1..Len(parts) |-> base \o parts[k]]

\* r'(\d{7})\s*[&,]\s*(\d{7})' matches at position i: the end of the match,
\* or 0 for no match.
PairEnd(s, i) ==
    IF ~DigitsAt(s, i, PdoDigits) THEN 0
    ELSE LET a == i + PdoDigits
             sp1 == SpaceRun(s, a)
             sep == a + sp1
         IN  IF sep > Len(s) \/ s[sep] \notin {38, 44} THEN 0
             ELSE LET sp2 == SpaceRun(s, sep + 1)
                      b == sep + 1 + sp2
                  IN  IF DigitsAt(s, b, PdoDigits) THEN b + PdoDigits ELSE 0

\* re.findall of the pair pattern from position i on, both groups in order.
RECURSIVE Pattern3(_, _)
Pattern3(s, i) ==
    IF i > Len(s) THEN <<>>
    ELSE IF PairEnd(s, i) > 0
         THEN LET e == PairEnd(s, i)
              IN  <<SubSeq(s, i, i + PdoDigits - 1), SubSeq(s, e - PdoDigits, e - 1)>>
                      \o Pattern3(s, e)
         ELSE Pattern3(s, i + 1)

\* The set handed to list(set(pdo_numbers)).
PdoNumberSet(text) ==
    Range(Pattern1(text, 1)) \cup Range(Pattern2(text)) \cup Range(Pattern3(text, 1))

\* extract_pdo_numbers returns the set's members in an arbitrary order.
extract_pdo_numbers(text) == SetOrders(PdoNumberSet(text))

\* ------------------------------------------------------------------------
\* Numbers and dictionaries
\* ------------------------------------------------------------------------

\* Optional[float] = None.
NoneNum == -1

\* bool(x) for Optional[float]: None and 0.0 are falsy.
TruthyNum(x) == x # NoneNum /\ x # 0

Abs(x) == IF x < 0 THEN -x ELSE x

\* An empty dict, and bool(d) for a dict.
EmptyDict == [k \in {} |-> 0]
NonEmptyDict(d) == DOMAIN d # {}

RECURSIVE SumOver(_, _)
SumOver(d, keys) ==
    IF keys = {} THEN 0
    ELSE LET k == CHOOSE x \in keys : TRUE IN d[k] + SumOver(d, keys \ {k})

\* sum(d.values())
SumValues(d) == SumOver(d, DOMAIN d)

\* d[key] = d.get(key, 0) + amount
DictAdd(d, key, amount) ==
    [k \in DOMAIN d \cup {key} |->
        IF k = key THEN (IF key \in DOMAIN d THEN d[key] ELSE 0) + amount ELSE d[k]]

\* ------------------------------------------------------------------------
\* parsers/sap_parser.py: SAPParser
\* ------------------------------------------------------------------------

\* Cell values that mark a header-echo row (the ones the sheets here use).
INVALID_BRAND_VALUES == {"Item No.", "Brand", "Status", ""}

\* settings.mappings.country_code_to_column
country_mapping == [c \in {"SG", "MY", "VN", "ID", "PH"} |->
    CASE c = "SG" -> "SIN" [] c = "MY" -> "MAL" [] c = "VN" -> "VIT"
      [] c = "ID" -> "Indonesia" [] c = "PH" -> "PH"]

\* str.upper() on the country codes the sheets here use.
Upper(code) == CASE code = "sg" -> "SG" [] code = "my" -> "MY" [] OTHER -> code

\* The running totals of the row loop of _parse_sheet.
InitialSheetTotals ==
    [brands |-> {}, currency |-> None, total_value |-> 0,
     country_splits |-> EmptyDict, row_count |-> 0]

\* One iteration of "for idx, row in df.iterrows()".  row.total is what
\* _parse_currency_value made of the Total cell: a (currency, amount) pair,
\* or amount NoneNum when the cell is empty or does not parse.
ParseRow(t, row) ==
    IF row.item_no = None \/ row.item_no \in INVALID_BRAND_VALUES THEN t
    ELSE LET parsed == row.total.amount # NoneNum
             col == IF row.po_country # None /\ Upper(row.po_country) \in DOMAIN country_mapping
                    THEN country_mapping[Upper(row.po_country)] ELSE None
             t1 == IF parsed
                   THEN [t EXCEPT
                           !.currency = IF @ = None THEN row.total.currency ELSE @,
                           !.total_value = @ + row.total.amount,
                           !.row_count = @ + 1,
                           !.country_splits =
                               IF col # None THEN DictAdd(@, col, row.total.amount) ELSE @]
                   ELSE t
         IN  IF row.brand # None /\ row.brand \notin INVALID_BRAND_VALUES
             THEN [t1 EXCEPT !.brands = @ \cup {row.brand}]
             ELSE t1

RECURSIVE ParseRows(_, _)
ParseRows(t, rows) ==
    IF rows = <<>> THEN t ELSE ParseRows(ParseRow(t, Head(rows)), Tail(rows))

\* "pdo_number = pdo_match.group(1) if pdo_match else sheet_name"
PdoNumberOfSheet(sheet_name) ==
    IF FirstDigitRun(sheet_name, PdoDigits) # <<>>
    THEN FirstDigitRun(sheet_name, PdoDigits) ELSE sheet_name

\* _parse_sheet returned None (no header row, no Total column, or a zero total).
SheetRejected(sheet) ==
    \/ sheet.layout # "ok"
    \/ ParseRows(InitialSheetTotals, sheet.rows).total_value = 0

\* The SAPPDOData objects _parse_sheet can return for a sheet it accepts:
\* brands=list(brands) lists the set in an arbitrary order.
_parse_sheet(sheet, source_file) ==
    LET t == ParseRows(InitialSheetTotals, sheet.rows)
    IN  {[pdo_number |-> PdoNumberOfSheet(sheet.sheet_name),
          brands |-> b,
          currency |-> IF t.currency # None THEN t.currency ELSE "USD",
          total_value |-> t.total_value,
          country_splits |-> t.country_splits,
          source_file |-> source_file,
          sheet_name |-> sheet.sheet_name,
          row_count |-> t.row_count] : b \in SetOrders(t.brands)}

\* A dict is the list of its values in insertion order; the key of a ledger
\* record is its sheet_name.
DictKeys(d) == {d[i].sheet_name : i \in 1..Len(d)}

\* d[key] = value: an existing key keeps its position.
DictPut(d, rec) ==
    IF rec.sheet_name \in DictKeys(d)
    THEN [i \in 1..Len(d) |-> IF d[i].sheet_name = rec.sheet_name THEN rec ELSE d[i]]
    ELSE Append(d, rec)

\* d.update(other)
RECURSIVE DictUpdate(_, _)
DictUpdate(d, other) ==
    IF other = <<>> THEN d ELSE DictUpdate(DictPut(d, Head(other)), Tail(other))

\* The dicts parse_file can return for the sheets of an opened workbook.
RECURSIVE ParseSheets(_, _)
ParseSheets(sheets, source_file) ==
    IF sheets = <<>> THEN {<<>>}
    ELSE LET rest == ParseSheets(Tail(sheets), source_file)
         IN  IF SheetRejected(Head(sheets)) THEN rest
             ELSE {DictUpdate(<<rec>>, r) :
                       rec \in _parse_sheet(Head(sheets), source_file), r \in rest}

\* parse_file raises SAPParserError when pd.ExcelFile cannot open the file.
ParseFileRaises(file) == file.kind = "corrupt"

parse_file(file) == ParseSheets(file.sheets, file.name)

\* ------------------------------------------------------------------------
\* parsers/sap_parser.py: match_pdo_to_filename
\* ------------------------------------------------------------------------

FuzzyDigits == 5

\* The three tests of the inner loop body for one ledger record.
ExactMatch(pdo_num, data) == data.pdo_number = pdo_num
SubstringMatch(pdo_num, data) == Contains(data.sheet_name, pdo_num)
FuzzyMatch(pdo_num, data) ==
    /\ Len(pdo_num) >= FuzzyDigits
    /\ Len(data.pdo_number) >= FuzzyDigits
    /\ LastChars(pdo_num, FuzzyDigits) = LastChars(data.pdo_number, FuzzyDigits)

RecordMatches(pdo_num, data) ==
    ExactMatch(pdo_num, data) \/ SubstringMatch(pdo_num, data) \/ FuzzyMatch(pdo_num, data)

\* "for sheet_name, data in pdo_data.items()": the index of the first record
\* that passes any of the three tests (the loop breaks there), 0 for none.
FirstMatchIndex(pdo_num, pdo_data) ==
    LET hits == {i \in 1..Len(pdo_data) : RecordMatches(pdo_num, pdo_data[i])}
    IN  IF hits = {} THEN 0 ELSE CHOOSE i \in hits : \A k \in hits : i <= k

\* "for pdo_num in pdo_numbers": the (pdo_num, data) pairs appended to matches.
RECURSIVE MatchLoop(_, _)
MatchLoop(pdo_numbers, pdo_data) ==
    IF pdo_numbers = <<>> THEN <<>>
    ELSE LET i == FirstMatchIndex(Head(pdo_numbers), pdo_data)
         IN  (IF i = 0 THEN <<>> ELSE << <<Head(pdo_numbers), pdo_data[i]>> >>)
                 \o MatchLoop(Tail(pdo_numbers), pdo_data)

\* match_pdo_to_filename, given the order extract_pdo_numbers returned.
match_pdo_to_filename(pdo_numbers, pdo_data) ==
    IF pdo_numbers = <<>> \/ pdo_data = <<>> THEN <<>>
    ELSE MatchLoop(pdo_numbers, pdo_data)

\* ------------------------------------------------------------------------
\* models/shipment.py: validate()
\* ------------------------------------------------------------------------

\* abs(...) > 0.01, money in hundredths.
SplitEpsilon == 1

Issue(severity, fld) == [severity |-> severity, field |-> fld]

SAPPDOData_validate_NoSplitCheck(data) ==
    IF data.brands = <<>> THEN <<Issue("WARNING", "brands")>> ELSE <<>>

\* SAPPDOData.validate
SAPPDOData_validate(data) ==
    (IF /\ NonEmptyDict(data.country_splits)
        /\ Abs(SumValues(data.country_splits) - data.total_value) > SplitEpsilon
     THEN <<Issue("ERROR", "country_splits")>> ELSE <<>>)
    \o (IF data.brands = <<>> THEN <<Issue("WARNING", "brands")>> ELSE <<>>)

\* The characters of the tracking strings the shipments here carry.
Chars(str) ==
    CASE str = "884602373339" -> <<8, 8, 4, 6, 0, 2, 3, 7, 3, 3, 3, 9>>
      [] str = "235-30462681" -> <<2, 3, 5, 45, 3, 0, 4, 6, 2, 6, 8, 1>>
      [] str = "ABC123"       -> <<65, 66, 67, 1, 2, 3>>
      [] OTHER                -> <<>>

\* sum(c.isdigit() for c in s)
DigitCount(s) == Cardinality({i \in 1..Len(s) : IsDigit(s[i])})

MinCourierDigits == 10

\* The issue list InboundShipment.validate builds.
InboundIssues_NoSplitCheck(sh) ==
    (IF ~Truthy(sh.tracking_or_awb) THEN <<Issue("WARNING", "tracking_or_awb")>> ELSE <<>>)
    \o (IF sh.etd_date = None THEN <<Issue("WARNING", "etd_date")>> ELSE <<>>)

InboundIssues(sh) ==
    (IF ~Truthy(sh.tracking_or_awb) THEN <<Issue("WARNING", "tracking_or_awb")>> ELSE <<>>)
    \o (IF sh.etd_date = None THEN <<Issue("WARNING", "etd_date")>> ELSE <<>>)
    \o (IF sh.mode = "COURIER"
        THEN (IF sh.flight_vessel # NoDisplay
              THEN <<Issue("INFO", "flight_vessel")>> ELSE <<>>)
             \o (IF /\ Truthy(sh.tracking_or_awb)
                    /\ DigitCount(Chars(sh.tracking_or_awb)) < MinCourierDigits
                 THEN <<Issue("WARNING", "tracking_or_awb")>> ELSE <<>>)
        ELSE IF sh.mode = "AIR"
        THEN (IF sh.flight_vessel = NoDisplay
              THEN <<Issue("WARNING", "flight_vessel")>> ELSE <<>>)
        ELSE <<>>)
    \o (IF /\ NonEmptyDict(sh.country_splits)
           /\ TruthyNum(sh.total_value)
           /\ Abs(SumValues(sh.country_splits) - sh.total_value) > SplitEpsilon
        THEN <<Issue("ERROR", "country_splits")>> ELSE <<>>)

\* InboundShipment.validate: the record with validation_issues replaced.
InboundShipment_validate(sh) == [sh EXCEPT !.validation_issues = InboundIssues(sh)]

\* InboundShipment.has_errors
has_errors(sh) ==
    \E i \in 1..Len(sh.validation_issues) : sh.validation_issues[i].severity = "ERROR"

HasError(issues) == \E i \in 1..Len(issues) : issues[i].severity = "ERROR"

\* InboundShipment(reference=...) with every other field at its default.
NewInboundShipment(reference) ==
    [reference |-> reference, etd_date |-> None, tracking_or_awb |-> None,
     incoterms |-> None, mode |-> "UNKNOWN", flight_vessel |-> NoDisplay,
     origin_country |-> None, destination_country |-> "SINGAPORE",
     brands |-> <<>>, description |-> None, currency |-> None,
     total_value |-> NoneNum, country_splits |-> EmptyDict,
     source_files |-> <<>>, extraction_confidence |-> "MEDIUM",
     validation_issues |-> <<>>, user_modified_fields |-> <<>>]

\* ------------------------------------------------------------------------
\* reconciliation.py: ReconciliationEngine
\* ------------------------------------------------------------------------

\* value_tolerance_percent: float = 5.0
DefaultTolerance == 5

\* "INFO if diff_pct < 10 else WARNING"
WarningPercent == 10

\* The index of the record the inner loop of _find_matching_sap returns for
\* one pdo_num, 0 for none.
FindIndexFor(pdo_num, sap_data) ==
    LET hits == {i \in 1..Len(sap_data) :
                    \/ sap_data[i].pdo_number = pdo_num
                    \/ Contains(sap_data[i].sheet_name, pdo_num)}
    IN  IF hits = {} THEN 0 ELSE CHOOSE i \in hits : \A k \in hits : i <= k

RECURSIVE FindLoop(_, _)
FindLoop(pdo_numbers, sap_data) ==
    IF pdo_numbers = <<>> THEN 0
    ELSE IF FindIndexFor(Head(pdo_numbers), sap_data) # 0
         THEN FindIndexFor(Head(pdo_numbers), sap_data)
         ELSE FindLoop(Tail(pdo_numbers), sap_data)

\* _find_matching_sap: the index in sap_data of the record returned, 0 for None.
_find_matching_sap(reference, sap_data) ==
    FindLoop(FindDigitRuns(reference, 1, PdoDigits), sap_data)

ReconIssue(type, severity, fld, auto) ==
    [issue_type |-> type, severity |-> severity, field |-> fld, auto_resolvable |-> auto]

\* diff_pct > bound, for diff_pct = abs(doc - sap) / sap * 100 and sap > 0.
DiffPctAbove(doc, sap, bound) == Abs(doc - sap) * 100 > bound * sap
DiffPctBelow(doc, sap, bound) == Abs(doc - sap) * 100 < bound * sap

\* "# Check currency match": the issues it appends.
CurrencyIssues(sh, m) ==
    IF Truthy(sh.currency) /\ Truthy(m.currency) /\ sh.currency # m.currency
    THEN <<ReconIssue("CURRENCY_MISMATCH", "WARNING", "currency", TRUE)>> ELSE <<>>

ValueIssues_NoTolerance(sh, m, tolerance) ==
    IF /\ TruthyNum(sh.total_value) /\ TruthyNum(m.total_value)
       /\ sh.total_value # m.total_value
    THEN <<ReconIssue("VALUE_MISMATCH", "WARNING", "total_value", TRUE)>>
    ELSE <<>>

\* "# Check value match (with tolerance)": the issues it appends.
ValueIssues(sh, m, tolerance) ==
    IF /\ TruthyNum(sh.total_value) /\ TruthyNum(m.total_value)
       /\ DiffPctAbove(sh.total_value, m.total_value, tolerance)
    THEN <<ReconIssue("VALUE_MISMATCH",
                      IF DiffPctBelow(sh.total_value, m.total_value, WarningPercent)
                      THEN "INFO" ELSE "WARNING",
                      "total_value", TRUE)>>
    ELSE <<>>

ApplySap_KeepsDocumentValue(sh, m) ==
    [sh EXCEPT !.currency = m.currency,
               !.brands = IF m.brands # <<>> THEN m.brands ELSE @,
               !.country_splits =
                   IF NonEmptyDict(m.country_splits) THEN m.country_splits ELSE @]

\* "# Apply SAP values for fields we know SAP is authoritative for"
ApplySap(sh, m) ==
    [sh EXCEPT !.currency = m.currency,
               !.total_value = m.total_value,
               !.brands = IF m.brands # <<>> THEN m.brands ELSE @,
               !.country_splits =
                   IF NonEmptyDict(m.country_splits) THEN m.country_splits ELSE @]

MissingInSap_TouchesShipment(sh) ==
    [shipment |-> [sh EXCEPT !.currency = None],
     result |-> [reference |-> sh.reference, matched_pdo |-> <<>>,
                 issues |-> <<ReconIssue("MISSING_IN_SAP", "WARNING", "reference", FALSE)>>,
                 sap_used |-> FALSE]]

\* The "if not matched_sap:" branch.  matched_pdo <<>> is None.
MissingInSap(sh) ==
    [shipment |-> sh,
     result |-> [reference |-> sh.reference, matched_pdo |-> <<>>,
                 issues |-> <<ReconIssue("MISSING_IN_SAP", "WARNING", "reference", FALSE)>>,
                 sap_used |-> FALSE]]

\* "if auto_apply is None: auto_apply = self.auto_apply"; the argument is
\* "None", "True" or "False".
ResolveAutoApply(arg, self_auto_apply) ==
    IF arg = "None" THEN self_auto_apply ELSE arg = "True"

\* The shipment after the currency check ("if auto_apply: shipment.currency = ...").
AfterCurrencyCheck(sh, m, auto_apply) ==
    IF CurrencyIssues(sh, m) # <<>> /\ auto_apply
    THEN [sh EXCEPT !.currency = m.currency] ELSE sh

\* The shipment after the value check ("if auto_apply: shipment.total_value = ...").
AfterValueCheck(sh, m, auto_apply, tolerance) ==
    IF ValueIssues(sh, m, tolerance) # <<>> /\ auto_apply
    THEN [sh EXCEPT !.total_value = m.total_value] ELSE sh

\* reconcile_inbound: the shipment as the call leaves it and the result it
\* returns.  engine is the ReconciliationEngine (tolerance, auto_apply), arg
\* the auto_apply argument.
reconcile_inbound(engine, sh, sap_data, arg) ==
    LET auto_apply == ResolveAutoApply(arg, engine.auto_apply)
        i == _find_matching_sap(sh.reference, sap_data)
    IN  IF i = 0 THEN MissingInSap(sh)
        ELSE LET m == sap_data[i]
                 sh1 == AfterCurrencyCheck(sh, m, auto_apply)
                 sh2 == AfterValueCheck(sh1, m, auto_apply, engine.tolerance)
             IN  [shipment |-> IF auto_apply THEN ApplySap(sh2, m) ELSE sh2,
                  result |-> [reference |-> sh.reference,
                              matched_pdo |-> m.pdo_number,
                              issues |-> CurrencyIssues(sh, m)
                                         \o ValueIssues(sh1, m, engine.tolerance),
                              sap_used |-> TRUE]]

\* ------------------------------------------------------------------------
\* Input domains: SAP export sheets
\* ------------------------------------------------------------------------

Total(currency, amount) == [currency |-> currency, amount |-> amount]

Row(item_no, total, po_country, brand) ==
    [item_no |-> item_no, total |-> total, po_country |-> po_country, brand |-> brand]

RowSG600 == Row("NST001", Total("USD", 60000), "SG", "NST")
RowMY400 == Row("IFC002", Total("USD", 40000), "my", "IFC")
RowXX400 == Row("NST003", Total("USD", 40000), "XX", "NST")
RowNoCountry == Row("IFC004", Total("USD", 100000), None, None)
RowHeaderEcho == Row("Item No.", Total("EUR", 70000), "SG", "Brand")
RowEUR500 == Row("IFC005", Total("EUR", 50000), "SG", "IFC")
RowBrandOnly == Row("ZZZ006", Total(None, NoneNum), "SG", "ZZZ")

\* Row lists: a sheet whose splits add up, one with a row of an unmapped
\* country, one without country and brand cells, one in another currency, and
\* one with no data row.
RowsBalanced == <<RowSG600, RowMY400>>
RowsUnbalanced == <<RowSG600, RowXX400, RowBrandOnly>>
RowsNoSplits == <<RowHeaderEcho, RowNoCountry>>
RowsEuro == <<RowEUR500>>
RowsNoData == <<RowHeaderEcho, RowBrandOnly>>

Sheet(name, layout, rows) == [sheet_name |-> name, layout |-> layout, rows |-> rows]

\* Sheet names: "PDO2500444", "PDO2600444", "PDO2500445", "PDO25004469", "Sheet1".
Name2500444 == <<80, 68, 79, 2, 5, 0, 0, 4, 4, 4>>
Name2600444 == <<80, 68, 79, 2, 6, 0, 0, 4, 4, 4>>
Name2500445 == <<80, 68, 79, 2, 5, 0, 0, 4, 4, 5>>
Name25004469 == <<80, 68, 79, 2, 5, 0, 0, 4, 4, 6, 9>>
NameSheet1 == <<83, 104, 101, 101, 116, 1>>

\* The sequences over S of length at most n whose sheets have distinct names.
SheetSeqs(S, n) ==
    {q \in UNION {[1..k -> S] : k \in 0..n} :
        \A i, j \in 1..Len(q) : i # j => q[i].sheet_name # q[j].sheet_name}

\* The ledgers parse_file builds from such sheet sequences.
Ledgers(S, n) == UNION {ParseSheets(q, "sap.xlsx") : q \in SheetSeqs(S, n)}

MaxLedger == 2

\* ------------------------------------------------------------------------
\* Components at rest (the values of the variables a specification leaves alone)
\* ------------------------------------------------------------------------

NoResult == [reference |-> <<>>, matched_pdo |-> <<>>, issues |-> <<>>, sap_used |-> TRUE]

AggIdle ==
    /\ focus = "idle"
    /\ page_results = <<>>
    /\ aggregated = InitialAggregated
    /\ agg_done = FALSE

MatchIdle ==
    /\ match_filename = <<>>
    /\ match_pdo_data = <<>>
    /\ match_pdo_numbers = <<>>
    /\ match_result = <<>>
    /\ match_done = FALSE

ReconIdle ==
    /\ recon_engine = [tolerance |-> DefaultTolerance, auto_apply |-> TRUE]
    /\ recon_arg = "None"
    /\ recon_input = NewInboundShipment(<<>>)
    /\ recon_shipment = NewInboundShipment(<<>>)
    /\ recon_sap_data = <<>>
    /\ recon_result = NoResult
    /\ recon_done = FALSE

ValIdle ==
    /\ val_kind = "idle"
    /\ val_pdo = [pdo_number |-> <<>>, brands |-> <<>>, currency |-> "USD",
                  total_value |-> 0, country_splits |-> EmptyDict]
    /\ val_shipment = NewInboundShipment(<<>>)
    /\ val_issues = <<>>
    /\ val_done = FALSE

\* validated: how many shipments the last validate_all went through.
NoCalls == [load |-> 0, process |-> 0, validate |-> 0, validated |-> 0]

\* ProcessingPipeline.__init__
ExtIdle ==
    /\ ext_api_key = FALSE
    /\ ext_page_count = 0
    /\ ext_outcomes = <<>>
    /\ ext_results = <<>>

\* What is recorded about a call: its name, whether it raised, the size of
\* its batch, the shipments it appended, the extract_from_image calls it
\* made, the index it was given, and how many calls the session has seen.
Call(op, raised, batch, appended, extracted, index, count) ==
    [op |-> op, raised |-> raised, batch |-> batch, appended |-> appended,
     extracted |-> extracted, index |-> index, count |-> count]

NoCall == Call("none", FALSE, 0, 0, 0, 0, 0)

SessIdle ==
    /\ sess_api_key = FALSE
    /\ sess_sap_data = <<>>
    /\ sess_inbound = <<>>
    /\ sess_audit = <<>>
    /\ sess_errors = <<>>
    /\ sess_validated = <<>>
    /\ sess_exported = <<>>
    /\ sess_last = NoCall

MaxThreads == 2

Threads == 1..MaxThreads

LimIdle ==
    /\ clock = 0
    /\ min_delay = 0
    /\ last_call_time = NoneNum
    /\ call_count = 0
    /\ limiter_lock = 0
    /\ wait_pc = [t \in Threads |-> "idle"]
    /\ wait_time = [t \in Threads |-> 0]
    /\ wake_time = [t \in Threads |-> 0]
    /\ call_times = <<>>

AuditIdle ==
    /\ audit_entries = <<>>
    /\ audit_lock = 0
    /\ audit_pc = [t \in Threads |-> "idle"]
    /\ audit_pending = [t \in Threads |-> <<>>]

BrandIdle ==
    /\ brand_field = [kind |-> "null"]
    /\ brand_result = <<>>
    /\ brand_done = FALSE

NormIdle ==
    /\ number_text = <<>>
    /\ normalized_awb = <<>>
    /\ normalized_tracking = <<>>
    /\ norm_done = {}

ClassIdle ==
    /\ description = <<>>
    /\ classification = <<>>
    /\ class_done = FALSE

OutIdle ==
    /\ awb_files = <<>>
    /\ invoice_files = <<>>
    /\ self_outbound_shipments = <<>>
    /\ outbound_progress = [errors |-> <<>>, warnings |-> <<>>]
    /\ awb_extractions = <<>>
    /\ matched_awbs = {}
    /\ outbound_done = FALSE

LateIdle == BrandIdle /\ NormIdle /\ ClassIdle /\ OutIdle

MoreIdle == ExtIdle /\ SessIdle /\ LimIdle /\ AuditIdle /\ LateIdle

PipeIdle ==
    /\ self_sap_data = <<>>
    /\ self_inbound_shipments = <<>>
    /\ progress_errors = <<>>
    /\ shipment_matches = <<>>
    /\ validation_result = <<>>
    /\ calls = NoCalls

\* ------------------------------------------------------------------------
\* Specification of the aggregator: the pages of one document are extracted
\* one after the other, then aggregated.
\* ------------------------------------------------------------------------

AggInit ==
    /\ focus \in Focuses
    /\ page_results = <<>>
    /\ aggregated = InitialAggregated
    /\ agg_done = FALSE
    /\ MatchIdle /\ ReconIdle /\ ValIdle /\ PipeIdle /\ MoreIdle

\* process_inbound_pdfs: one page extracted and appended to page_results.
ExtractPage ==
    /\ ~agg_done
    /\ Len(page_results) < MaxPages
    /\ \E p \in PagesFor(focus) : page_results' = Append(page_results, p)
    /\ UNCHANGED moreVars
    /\ UNCHANGED <<focus, aggregated, agg_done, matchVars, reconVars, valVars, pipeVars>>

\* aggregated = DocumentAggregator.aggregate_inbound(page_results, filename)
Aggregate ==
    /\ ~agg_done
    /\ \E flights \in SetOrders(Range(AggregateLoop(InitialAggregated,
                                                   page_results).flight_numbers)) :
           aggregated' = aggregate_inbound(page_results, flights)
    /\ agg_done' = TRUE
    /\ UNCHANGED moreVars
    /\ UNCHANGED <<focus, page_results, matchVars, reconVars, valVars, pipeVars>>

AggNext == ExtractPage \/ Aggregate

SpecAgg == AggInit /\ [][AggNext]_vars

\* ------------------------------------------------------------------------
\* Specification of identifier matching: one call of match_pdo_to_filename
\* on a file name and a ledger.
\* ------------------------------------------------------------------------

\* File names: "PDO 2500444_NST", "PDO 2600444", "PDO 2500444 & 2600444",
\* "PDO2500444,445", "pdo2700444", "PDO25004469", "PDO 444", "PDO 9999999",
\* "invoice".
MatchFilenames ==
    {<<80, 68, 79, 32, 2, 5, 0, 0, 4, 4, 4, 95, 78, 83, 84>>,
     <<80, 68, 79, 32, 2, 6, 0, 0, 4, 4, 4>>,
     <<80, 68, 79, 32, 2, 5, 0, 0, 4, 4, 4, 32, 38, 32, 2, 6, 0, 0, 4, 4, 4>>,
     <<80, 68, 79, 2, 5, 0, 0, 4, 4, 4, 44, 4, 4, 5>>,
     <<112, 100, 111, 2, 7, 0, 0, 4, 4, 4>>,
     <<80, 68, 79, 2, 5, 0, 0, 4, 4, 6, 9>>,
     <<80, 68, 79, 32, 4, 4, 4>>,
     <<80, 68, 79, 32, 9, 9, 9, 9, 9, 9, 9>>,
     <<105, 110, 118, 111, 105, 99, 101>>}

MatchSheets ==
    {Sheet(n, "ok", RowsEuro) :
        n \in {Name2500444, Name2600444, Name2500445, Name25004469, NameSheet1}}

MatchLedgers == Ledgers(MatchSheets, MaxLedger)

MatchInit ==
    /\ match_pdo_data \in MatchLedgers
    /\ match_filename \in MatchFilenames
    /\ match_pdo_numbers = <<>>
    /\ match_result = <<>>
    /\ match_done = FALSE
    /\ AggIdle /\ ReconIdle /\ ValIdle /\ PipeIdle /\ MoreIdle

\* pdo_matches = match_pdo_to_filename(filename, self.sap_data)
MatchPdoToFilename ==
    /\ ~match_done
    /\ \E nums \in extract_pdo_numbers(match_filename) :
          /\ match_pdo_numbers' = nums
          /\ match_result' = match_pdo_to_filename(nums, match_pdo_data)
    /\ match_done' = TRUE
    /\ UNCHANGED moreVars
    /\ UNCHANGED <<match_filename, match_pdo_data, aggVars, reconVars, valVars, pipeVars>>

MatchNext == MatchPdoToFilename

SpecMatch == MatchInit /\ [][MatchNext]_vars

\* ------------------------------------------------------------------------
\* Specification of reconciliation: one call of reconcile_inbound on a
\* shipment and a ledger.
\* ------------------------------------------------------------------------

\* Tolerances the engine is constructed with.
Tolerances == {DefaultTolerance, WarningPercent}

\* References: "PDO2500444", "PDO2500445, PDO2500444", "PDO9999999", "invoice".
ReconReferences ==
    {<<80, 68, 79, 2, 5, 0, 0, 4, 4, 4>>,
     <<80, 68, 79, 2, 5, 0, 0, 4, 4, 5, 44, 32, 80, 68, 79, 2, 5, 0, 0, 4, 4, 4>>,
     <<80, 68, 79, 9, 9, 9, 9, 9, 9, 9>>,
     <<105, 110, 118, 111, 105, 99, 101>>}

\* Document values against a ledger total of 1000.00: none, zero, equal, 5%,
\* just above 5%, just below 10%, 10%, 20% above, and 5% and 20% below.
ReconValues ==
    {NoneNum, 0, 100000, 105000, 105001, 109999, 110000, 120000, 95000, 80000}

ReconShipments ==
    {[NewInboundShipment(ref) EXCEPT
          !.currency = cur, !.total_value = val, !.brands = br,
          !.country_splits = sp] :
        ref \in ReconReferences,
        cur \in {None, "USD", "EUR"},
        val \in ReconValues,
        br \in {<<>>, <<"ZZZ">>},
        sp \in {EmptyDict, [k \in {"VIT"} |-> 100000]}}

ReconSheets ==
    {Sheet(Name2500444, "ok", rows) : rows \in {RowsBalanced, RowsNoSplits, RowsEuro}}
    \cup {Sheet(Name2600444, "ok", RowsUnbalanced)}

ReconLedgers == Ledgers(ReconSheets, MaxLedger)

ReconInit ==
    /\ recon_sap_data \in ReconLedgers
    /\ recon_input \in ReconShipments
    /\ recon_shipment = recon_input
    /\ recon_engine \in [tolerance : Tolerances, auto_apply : BOOLEAN]
    /\ recon_arg \in {"None", "True", "False"}
    /\ recon_result = NoResult
    /\ recon_done = FALSE
    /\ AggIdle /\ MatchIdle /\ ValIdle /\ PipeIdle /\ MoreIdle

\* result = engine.reconcile_inbound(shipment, sap_data, auto_apply)
ReconcileInbound ==
    /\ ~recon_done
    /\ LET out == reconcile_inbound(recon_engine, recon_shipment, recon_sap_data, recon_arg)
       IN  /\ recon_shipment' = out.shipment
           /\ recon_result' = out.result
    /\ recon_done' = TRUE
    /\ UNCHANGED moreVars
    /\ UNCHANGED <<recon_engine, recon_arg, recon_input, recon_sap_data,
                   aggVars, matchVars, valVars, pipeVars>>

ReconNext == ReconcileInbound

SpecRecon == ReconInit /\ [][ReconNext]_vars

\* ------------------------------------------------------------------------
\* Specification of validation: one call of validate() on a ledger record
\* or on an inbound shipment.
\* ------------------------------------------------------------------------

Splits(sin, mal) == [k \in {"SIN", "MAL"} |-> IF k = "SIN" THEN sin ELSE mal]

\* Region splits: none, 600 + 400, 600 + 300, 400 + 400, 600 + 400.01,
\* 600 + 400.02 and a single region of 1000.
ValSplits ==
    {EmptyDict, Splits(60000, 40000), Splits(60000, 30000), Splits(40000, 40000),
     Splits(60000, 40001), Splits(60000, 40002), [k \in {"SIN"} |-> 100000]}

ValPdos ==
    {[pdo_number |-> <<2, 5, 0, 0, 4, 4, 4>>, brands |-> br, currency |-> "USD",
      total_value |-> tv, country_splits |-> sp] :
        br \in {<<>>, <<"NST">>}, tv \in {100000, 90000, 0}, sp \in ValSplits}

ValShipments ==
    {[NewInboundShipment(Name2500444) EXCEPT
          !.tracking_or_awb = tr, !.etd_date = d, !.mode = m,
          !.flight_vessel = fv, !.total_value = tv, !.country_splits = sp] :
        tr \in {None, "", "884602373339", "ABC123"},
        d \in {None, "2025-09-23"},
        m \in {"COURIER", "AIR", "SEA", "UNKNOWN"},
        fv \in {NoDisplay, <<"VN654">>},
        tv \in {NoneNum, 0, 100000},
        sp \in ValSplits}

ValInit ==
    /\ val_kind \in {"SAPPDOData", "InboundShipment"}
    /\ IF val_kind = "SAPPDOData"
       THEN val_pdo \in ValPdos /\ val_shipment = NewInboundShipment(<<>>)
       ELSE val_shipment \in ValShipments /\ val_pdo = CHOOSE x \in ValPdos : TRUE
    /\ val_issues = <<>>
    /\ val_done = FALSE
    /\ AggIdle /\ MatchIdle /\ ReconIdle /\ PipeIdle /\ MoreIdle

\* issues = pdo.validate()
ValidatePdo ==
    /\ val_kind = "SAPPDOData" /\ ~val_done
    /\ val_issues' = SAPPDOData_validate(val_pdo)
    /\ val_done' = TRUE
    /\ UNCHANGED moreVars
    /\ UNCHANGED <<val_kind, val_pdo, val_shipment, aggVars, matchVars, reconVars, pipeVars>>

\* issues = shipment.validate()
ValidateInbound ==
    /\ val_kind = "InboundShipment" /\ ~val_done
    /\ val_shipment' = InboundShipment_validate(val_shipment)
    /\ val_issues' = InboundIssues(val_shipment)
    /\ val_done' = TRUE
    /\ UNCHANGED moreVars
    /\ UNCHANGED <<val_kind, val_pdo, aggVars, matchVars, reconVars, pipeVars>>

ValNext == ValidatePdo \/ ValidateInbound

SpecVal == ValInit /\ [][ValNext]_vars

\* ------------------------------------------------------------------------
\* utils/helpers.py: AuditTrail
\* ------------------------------------------------------------------------

\* AuditEntry without its timestamp and notes.
AuditEntry(action, reference, fld, old, new, source) ==
    [action |-> action, record_reference |-> reference, field_name |-> fld,
     old_value |-> old, new_value |-> new, source |-> source]

AppendEntry_ReplacesLast(entries, entry) ==
    IF entries = <<>> THEN <<entry>>
    ELSE [entries EXCEPT ![Len(entries)] = entry]

\* self.entries.append(entry)
AppendEntry(entries, entry) == Append(entries, entry)

log_extraction(entries, reference, fld, value, source) ==
    AppendEntry(entries, AuditEntry("EXTRACTED", reference, fld, None, value, source))

log_user_edit(entries, reference, fld, old, new) ==
    AppendEntry(entries, AuditEntry("USER_EDIT", reference, fld, old, new, "USER"))

log_validation(entries, reference, issues) ==
    AppendEntry(entries, AuditEntry("VALIDATED", reference, None, None, issues, "SYSTEM"))

log_export(entries, reference, destination) ==
    AppendEntry(entries, AuditEntry("EXPORTED", reference, None, None, destination, "SYSTEM"))

\* ------------------------------------------------------------------------
\* extractors/vision_extractor.py: VisionExtractor
\* ------------------------------------------------------------------------

\* A response text is a sequence of tokens: braces, a comma, prose, and the
\* members "document_type": "AIR_WAYBILL", "document_type": "MEMO" (no such
\* document type), "confidence": "HIGH" and "mode": 5 (a number where a
\* string is expected).
JsonMembers ==
    {"document_type=AIR_WAYBILL", "document_type=MEMO", "confidence=HIGH", "mode=5"}

ResponseTokens == {"{", "}", ",", "txt"} \cup JsonMembers

MemberKey(tok) ==
    CASE tok = "document_type=AIR_WAYBILL" -> "document_type"
      [] tok = "document_type=MEMO"        -> "document_type"
      [] tok = "confidence=HIGH"           -> "confidence"
      [] tok = "mode=5"                    -> "mode"

MemberValue(tok) ==
    CASE tok = "document_type=AIR_WAYBILL" -> "AIR_WAYBILL"
      [] tok = "document_type=MEMO"        -> "MEMO"
      [] tok = "confidence=HIGH"           -> "HIGH"
      [] tok = "mode=5"                    -> "5"

\* re.search(r'\{[\s\S]*\}', raw_response): from the first "{" to the last
\* "}" after it; <<>> when there is no match.
JsonMatch(text) ==
    LET opens == {i \in 1..Len(text) : text[i] = "{"}
        closes == {i \in 1..Len(text) : text[i] = "}"}
        first == CHOOSE i \in opens : \A k \in opens : i <= k
        last == CHOOSE i \in closes : \A k \in closes : i >= k
    IN  IF opens = {} \/ closes = {} THEN <<>>
        ELSE IF last < first THEN <<>> ELSE SubSeq(text, first, last)

\* member ("," member)*
RECURSIVE MemberList(_)
MemberList(toks) ==
    /\ toks # <<>>
    /\ Head(toks) \in JsonMembers
    /\ \/ Len(toks) = 1
       \/ Len(toks) >= 3 /\ toks[2] = "," /\ MemberList(SubSeq(toks, 3, Len(toks)))

\* json.loads accepts the matched text: "{" [member ("," member)*] "}".
JsonWellFormed(m) ==
    /\ Len(m) >= 2 /\ m[1] = "{" /\ m[Len(m)] = "}"
    /\ Len(m) = 2 \/ MemberList(SubSeq(m, 2, Len(m) - 1))

\* The dictionary json.loads returns: a repeated key keeps its last value.
JsonData(m) ==
    LET idx == {i \in 1..Len(m) : m[i] \in JsonMembers}
        keys == {MemberKey(m[i]) : i \in idx}
    IN  [k \in keys |->
            MemberValue(m[CHOOSE i \in idx :
                             /\ MemberKey(m[i]) = k
                             /\ \A j \in idx : MemberKey(m[j]) = k => j <= i])]

ErrorResult_NoErrors(raw, err) ==
    [EmptyPage("UNKNOWN", "LOW") EXCEPT !.raw_response = raw]

\* The ExtractionResult of a page that could not be extracted.
ErrorResult(raw, err) ==
    [EmptyPage("UNKNOWN", "LOW") EXCEPT !.raw_response = raw,
                                        !.extraction_errors = <<err>>]

\* TransportMode.from_string(mode_str) calls mode_str.upper(): a number has
\* no such method and the AttributeError leaves _parse_response.
ParseRaises(text) ==
    /\ JsonMatch(text) # <<>>
    /\ JsonWellFormed(JsonMatch(text))
    /\ "mode" \in DOMAIN JsonData(JsonMatch(text))

\* _parse_inbound_response on the dictionary (only called when it does not raise).
_parse_inbound_response(data, raw) ==
    [EmptyPage(IF "document_type" \in DOMAIN data /\ data["document_type"] \in DocumentType
               THEN data["document_type"] ELSE "UNKNOWN",
               IF "confidence" \in DOMAIN data /\ data["confidence"] \in ExtractionConfidence
               THEN data["confidence"] ELSE "MEDIUM")
        EXCEPT !.raw_response = raw]

\* _parse_response for prompt_type "inbound" (only called when it does not raise).
_parse_response(text) ==
    IF JsonMatch(text) = <<>> THEN ErrorResult(text, "No JSON found in response")
    ELSE IF ~JsonWellFormed(JsonMatch(text)) THEN ErrorResult(text, "JSON parse error")
    ELSE _parse_inbound_response(JsonData(JsonMatch(text)), text)

\* What the API call gave: a response text, RateLimitError, or another
\* exception.
ApiText(text) == [kind |-> "text", text |-> text]
ApiRateLimit == [kind |-> "rate_limit", text |-> <<>>]
ApiError == [kind |-> "api_error", text |-> <<>>]

\* extract_from_image: self.client raises inside the try block when no API
\* key is configured; every exception of the block becomes a result.
extract_from_image(api_key, outcome) ==
    IF ~api_key THEN ErrorResult(<<>>, "API key not configured")
    ELSE IF outcome.kind = "rate_limit" THEN ErrorResult(<<>>, "Rate limit exceeded")
    ELSE IF outcome.kind = "api_error" THEN ErrorResult(<<>>, "api error")
    ELSE IF ParseRaises(outcome.text)
    THEN ErrorResult(<<>>, "'int' object has no attribute 'upper'")
    ELSE _parse_response(outcome.text)

\* ------------------------------------------------------------------------
\* pipeline.py: ProcessingPipeline
\* ------------------------------------------------------------------------

\* FileValidator.validate_excel: a file of size zero, an oversized file or
\* one without the Excel magic bytes is refused.
validate_excel(file) == file.kind \notin {"empty", "not_excel"}

\* "for pdo_num, data in parsed.items()": one EXTRACTED entry per record,
\* the value f"{data.currency} {data.total_value:.2f}" as the pair it shows.
RECURSIVE LogParsed(_, _)
LogParsed(entries, parsed) ==
    IF parsed = <<>> THEN entries
    ELSE LogParsed(log_extraction(entries, Head(parsed).sheet_name, "sap_data",
                                  <<Head(parsed).currency, Head(parsed).total_value>>,
                                  "SAP"),
                   Tail(parsed))

\* One iteration of "for file in files" of load_sap_files on
\* st = [sap_data, errors, audit]: the states it can leave.
LoadFile(st, file) ==
    IF ~validate_excel(file)
    THEN {[st EXCEPT !.errors = Append(@, <<"Invalid file", file.name>>)]}
    ELSE IF ParseFileRaises(file)
    THEN {[st EXCEPT !.errors = Append(@, <<"Failed to parse", file.name>>)]}
    ELSE {[st EXCEPT !.sap_data = DictUpdate(@, parsed),
                     !.audit = LogParsed(@, parsed)] : parsed \in parse_file(file)}

RECURSIVE LoadLoop(_, _)
LoadLoop(st, files) ==
    IF files = <<>> THEN {st}
    ELSE UNION {LoadLoop(s1, Tail(files)) : s1 \in LoadFile(st, Head(files))}

\* load_sap_files: progress.errors starts empty at every call; audit holds
\* the entries the call adds to the audit trail.
load_sap_files(ledger, files) ==
    LoadLoop([sap_data |-> ledger, errors |-> <<>>, audit |-> <<>>], files)

\* ", ".join(f"PDO{n}" for n in nums)
RECURSIVE JoinReference(_)
JoinReference(nums) ==
    IF nums = <<>> THEN <<>>
    ELSE <<80, 68, 79>> \o Head(nums)
           \o (IF Len(nums) > 1 THEN <<44, 32>> \o JoinReference(Tail(nums)) ELSE <<>>)

\* country_splits[country] = country_splits.get(country, 0) + value, for
\* every item of other.
MergeSplits(d, other) ==
    [k \in DOMAIN d \cup DOMAIN other |->
        (IF k \in DOMAIN d THEN d[k] ELSE 0) + (IF k \in DOMAIN other THEN other[k] ELSE 0)]

NoSapData == [sap_brands |-> <<>>, total_value |-> 0, currency |-> None,
              country_splits |-> EmptyDict]

\* "for _, sap_data in pdo_matches" of _create_inbound_shipment.
RECURSIVE CombineMatches(_, _)
CombineMatches(acc, pdo_matches) ==
    IF pdo_matches = <<>> THEN acc
    ELSE LET data == Head(pdo_matches)[2]
         IN  CombineMatches(
                 [sap_brands |-> acc.sap_brands \o data.brands,
                  total_value |-> acc.total_value + data.total_value,
                  currency |-> IF Truthy(acc.currency) THEN acc.currency ELSE data.currency,
                  country_splits |-> MergeSplits(acc.country_splits, data.country_splits)],
                 Tail(pdo_matches))

\* The shipments _create_inbound_shipment can return; pdo_nums is the list
\* extract_pdo_numbers(filename) returned.  list(set(sap_brands)) comes in an
\* arbitrary order.
_create_inbound_shipment(filename, pdo_nums, agg, pdo_matches) ==
    LET reference ==
            IF pdo_matches # <<>>
            THEN JoinReference([i \in 1..Len(pdo_matches) |-> pdo_matches[i][1]])
            ELSE IF pdo_nums # <<>> THEN JoinReference(pdo_nums) ELSE filename
        sap == CombineMatches(NoSapData, pdo_matches)
        brandLists == IF agg.brand_codes # <<>> THEN {agg.brand_codes}
                      ELSE SetOrders(Range(sap.sap_brands))
    IN  {[NewInboundShipment(reference) EXCEPT
            !.etd_date = agg.ship_date,
            !.tracking_or_awb = agg.tracking_or_awb,
            !.incoterms = agg.incoterms,
            !.mode = IF agg.mode # None THEN agg.mode ELSE "UNKNOWN",
            !.flight_vessel = IF agg.flight_numbers # <<>>
                              THEN JoinSlash(agg.flight_numbers) ELSE NoDisplay,
            !.origin_country = agg.origin_country,
            !.brands = b,
            !.currency = sap.currency,
            !.total_value = IF sap.total_value > 0 THEN sap.total_value ELSE NoneNum,
            !.country_splits = sap.country_splits,
            !.source_files = <<filename>>,
            !.extraction_confidence = agg.confidence] : b \in brandLists}

\* f"page_{page_num + 1}"
PageField(n) ==
    CASE n = 1 -> "page_1" [] n = 2 -> "page_2" [] n = 3 -> "page_3" [] OTHER -> "page_n"

\* self.audit.log_extraction(filename, f"page_{page_num + 1}",
\* result.document_type.value, "AI") for the pages from number n on.
RECURSIVE LogPages(_, _, _, _)
LogPages(entries, filename, pages, n) ==
    IF n > Len(pages) THEN entries
    ELSE LogPages(log_extraction(entries, filename, PageField(n),
                                 pages[n].document_type, "AI"),
                  filename, pages, n + 1)

\* One iteration of "for pdf_info in pdf_files" of process_inbound_pdfs on
\* st = [shipments, matches, errors, audit, extracted, raised]: the states it
\* can leave.  pdf.pages are the results extract_from_image gave for the
\* pages; rendering a page can raise, and then the file leaves an error and
\* no shipment.
ProcessPdf(st, pdf, ledger) ==
    IF pdf.kind = "render_fails"
    THEN {[st EXCEPT !.errors = Append(@, <<"Failed to process", pdf.name>>)]}
    ELSE {[st EXCEPT !.shipments = Append(@, sh),
                     !.matches = Append(@, match_pdo_to_filename(nums, ledger)),
                     !.audit = LogPages(@, pdf.name, pdf.pages, 1),
                     !.extracted = @ + Len(pdf.pages)] :
             <<nums, sh>> \in
                 UNION {{<<n, x>> :
                           x \in UNION {_create_inbound_shipment(
                                            pdf.name, n,
                                            aggregate_inbound(pdf.pages, fl),
                                            match_pdo_to_filename(n, ledger)) :
                                        fl \in SetOrders(Range(
                                            AggregateLoop(InitialAggregated,
                                                          pdf.pages).flight_numbers))}} :
                        n \in extract_pdo_numbers(pdf.name)}}

RECURSIVE ProcessLoop(_, _, _)
ProcessLoop(st, pdf_files, ledger) ==
    IF pdf_files = <<>> THEN {st}
    ELSE UNION {ProcessLoop(s1, Tail(pdf_files), ledger) :
                    s1 \in ProcessPdf(st, Head(pdf_files), ledger)}

\* fitz.open raises on a file that is no readable PDF.
GetPageCountRaises(pdf) == pdf.kind = "unreadable"

\* process_inbound_pdfs appends to self.inbound_shipments; progress.errors
\* starts empty at every call.  total_pages is summed over all files before
\* the loop and outside its try block: when get_page_count raises for one
\* file the call raises before the first file is processed.  audit holds the
\* entries the call adds to the audit trail, extracted is the number of
\* extract_from_image calls.
process_inbound_pdfs(shipments, matches, pdf_files, ledger) ==
    LET st0 == [shipments |-> shipments, matches |-> matches, errors |-> <<>>,
                audit |-> <<>>, extracted |-> 0, raised |-> FALSE]
    IN  IF \E i \in 1..Len(pdf_files) : GetPageCountRaises(pdf_files[i])
        THEN {[st0 EXCEPT !.raised = TRUE]}
        ELSE ProcessLoop(st0, pdf_files, ledger)

\* issues[shipment.reference] = shipment_issues
IssuesPut(d, reference, issues) ==
    IF \E i \in 1..Len(d) : d[i].reference = reference
    THEN [i \in 1..Len(d) |->
             IF d[i].reference = reference
             THEN [reference |-> reference, issues |-> issues] ELSE d[i]]
    ELSE Append(d, [reference |-> reference, issues |-> issues])

\* "for shipment in self.inbound_shipments" of validate_all: the dictionary
\* of the references with issues.  (No outbound shipment exists here, so the
\* second loop of validate_all has nothing to do.)
RECURSIVE ValidateLoop(_, _)
ValidateLoop(d, shipments) ==
    IF shipments = <<>> THEN d
    ELSE LET issues == InboundIssues(Head(shipments))
         IN  ValidateLoop(IF issues # <<>>
                          THEN IssuesPut(d, Head(shipments).reference, issues) ELSE d,
                          Tail(shipments))

validate_all(shipments) == ValidateLoop(<<>>, shipments)

\* The entries validate_all adds to the audit trail: one VALIDATED entry for
\* every shipment with issues.
RECURSIVE LogValidations(_, _)
LogValidations(entries, shipments) ==
    IF shipments = <<>> THEN entries
    ELSE LET issues == InboundIssues(Head(shipments))
         IN  LogValidations(IF issues # <<>>
                            THEN log_validation(entries, Head(shipments).reference, issues)
                            ELSE entries,
                            Tail(shipments))

\* "for shipment in self.inbound_shipments: self.audit.log_export(...)" of
\* generate_excel.
RECURSIVE LogExports(_, _)
LogExports(entries, shipments) ==
    IF shipments = <<>> THEN entries
    ELSE LogExports(log_export(entries, Head(shipments).reference, "Excel"),
                    Tail(shipments))

\* generate_excel: the rows handed to excel_generator.generate and the audit
\* trail after the call.  No step of it looks at validation_issues.
generate_excel(shipments, entries) ==
    [rows |-> shipments, audit |-> LogExports(entries, shipments)]

\* "for field, new_value in updates.items()" of update_inbound_shipment on
\* st = [shipment, audit]; updates is the list of the <<field, new_value>>
\* items.
RECURSIVE UpdateLoop(_, _)
UpdateLoop(st, updates) ==
    IF updates = <<>> THEN st
    ELSE LET fld == Head(updates)[1]
             new_value == Head(updates)[2]
             old_value == st.shipment[fld]
         IN  UpdateLoop(
                 IF old_value # new_value
                 THEN [shipment |-> [st.shipment EXCEPT
                                        ![fld] = new_value,
                                        !.user_modified_fields = Append(@, fld)],
                       audit |-> log_user_edit(st.audit, st.shipment.reference,
                                               fld, old_value, new_value)]
                 ELSE st,
                 Tail(updates))

\* update_inbound_shipment(index, updates): the shipment list and the audit
\* trail after the call.  index counts from 0.
update_inbound_shipment(shipments, entries, index, updates) ==
    IF 0 <= index /\ index < Len(shipments)
    THEN LET st == UpdateLoop([shipment |-> shipments[index + 1], audit |-> entries],
                              updates)
         IN  [shipments |-> [shipments EXCEPT ![index + 1] = st.shipment],
              audit |-> st.audit]
    ELSE [shipments |-> shipments, audit |-> entries]

\* ReconciliationEngine.reconcile_batch on the shipment objects: every
\* shipment as reconcile_inbound leaves it.  The engine holds no audit trail.
reconcile_batch(engine, shipments, sap_data) ==
    [i \in 1..Len(shipments) |->
        reconcile_inbound(engine, shipments[i], sap_data, "None").shipment]

\* The results extract_from_image gives for the pages of a document whose
\* API calls end as doc.outcomes say.
Extracted(api_key, doc) ==
    [name |-> doc.name, kind |-> doc.kind,
     pages |-> [i \in 1..Len(doc.outcomes) |->
                   extract_from_image(api_key, doc.outcomes[i])]]

\* ------------------------------------------------------------------------
\* Specification of the pipeline: ledger files are loaded, documents are
\* processed into shipments, the shipments are validated; the stages can be
\* called in any order.
\* ------------------------------------------------------------------------

\* Files per load_sap_files call, documents per process_inbound_pdfs call,
\* calls per stage.
MaxFiles == 2
MaxPdfs == 2
MaxCalls == 1

File(name, kind, sheets) == [name |-> name, kind |-> kind, sheets |-> sheets]

\* The uploads: a balanced sheet; an unbalanced sheet beside a sheet without
\* header; a sheet whose rows name no region; a second export of the first
\* identifier; an empty file; a file pandas cannot open.
SapFiles ==
    {File("a.xlsx", "xlsx", <<Sheet(Name2500444, "ok", RowsBalanced)>>),
     File("b.xlsx", "xlsx", <<Sheet(Name2600444, "ok", RowsUnbalanced),
                              Sheet(NameSheet1, "noheader", RowsBalanced)>>),
     File("c.xlsx", "xlsx", <<Sheet(Name2500445, "ok", RowsNoSplits)>>),
     File("d.xlsx", "xlsx", <<Sheet(Name2500444, "ok", RowsEuro)>>),
     File("e.xlsx", "empty", <<>>),
     File("f.xlsx", "corrupt", <<>>)}

\* The pages of a courier document and of an air document with its order.
LabelPages ==
    <<[EmptyPage("COURIER_LABEL", "HIGH") EXCEPT
          !.tracking_or_awb = "884602373339", !.ship_date = "2025-09-23",
          !.mode = "COURIER", !.carrier = "FEDEX"]>>

AwbPages ==
    <<[EmptyPage("AIR_WAYBILL", "MEDIUM") EXCEPT
          !.tracking_or_awb = "235-30462681", !.mode = "AIR",
          !.flight_numbers = <<"SQ321">>],
      [EmptyPage("PURCHASE_ORDER", "HIGH") EXCEPT !.brand_codes = <<"NST">>]>>

\* Documents "PDO 2500444_NST", "PDO 2600444", "PDO 2500444 & 2600444",
\* "PDO2500444,445" and "invoice", each as a courier and as an air document,
\* and one document whose pages cannot be rendered.
PdfFiles ==
    {[name |-> n, kind |-> "ok", pages |-> pg] :
        n \in {<<80, 68, 79, 32, 2, 5, 0, 0, 4, 4, 4, 95, 78, 83, 84>>,
               <<80, 68, 79, 32, 2, 6, 0, 0, 4, 4, 4>>,
               <<80, 68, 79, 32, 2, 5, 0, 0, 4, 4, 4, 32, 38, 32, 2, 6, 0, 0, 4, 4, 4>>,
               <<80, 68, 79, 2, 5, 0, 0, 4, 4, 4, 44, 4, 4, 5>>,
               <<105, 110, 118, 111, 105, 99, 101>>},
        pg \in {LabelPages, AwbPages}}
    \cup {[name |-> <<98, 97, 100>>, kind |-> "render_fails", pages |-> <<>>]}

\* The non-empty lists of at most n elements of S.
ListsUpTo(S, n) == UNION {[1..k -> S] : k \in 1..n}

PipeInit == PipeIdle /\ AggIdle /\ MatchIdle /\ ReconIdle /\ ValIdle /\ MoreIdle

LoadSapFiles ==
    /\ calls.load < MaxCalls
    /\ \E files \in ListsUpTo(SapFiles, MaxFiles) :
         \E st \in load_sap_files(self_sap_data, files) :
            /\ self_sap_data' = st.sap_data
            /\ progress_errors' = st.errors
    /\ calls' = [calls EXCEPT !.load = @ + 1]
    /\ UNCHANGED moreVars
    /\ UNCHANGED <<self_inbound_shipments, shipment_matches, validation_result,
                   aggVars, matchVars, reconVars, valVars>>

ProcessInboundPdfs ==
    /\ calls.process < MaxCalls
    /\ \E pdf_files \in ListsUpTo(PdfFiles, MaxPdfs) :
         \E st \in process_inbound_pdfs(self_inbound_shipments, shipment_matches,
                                        pdf_files, self_sap_data) :
            /\ self_inbound_shipments' = st.shipments
            /\ shipment_matches' = st.matches
            /\ progress_errors' = st.errors
    /\ calls' = [calls EXCEPT !.process = @ + 1]
    /\ UNCHANGED moreVars
    /\ UNCHANGED <<self_sap_data, validation_result,
                   aggVars, matchVars, reconVars, valVars>>

\* validate_all stores each shipment's issues on the shipment and returns
\* the dictionary of the non-empty ones.
ValidateAll ==
    /\ calls.validate < MaxCalls
    /\ self_inbound_shipments' =
           [i \in 1..Len(self_inbound_shipments) |->
               InboundShipment_validate(self_inbound_shipments[i])]
    /\ validation_result' = validate_all(self_inbound_shipments)
    /\ calls' = [calls EXCEPT !.validate = @ + 1,
                              !.validated = Len(self_inbound_shipments)]
    /\ UNCHANGED moreVars
    /\ UNCHANGED <<self_sap_data, shipment_matches, progress_errors,
                   aggVars, matchVars, reconVars, valVars>>

PipeNext == LoadSapFiles \/ ProcessInboundPdfs \/ ValidateAll

SpecPipe == PipeInit /\ [][PipeNext]_vars

\* ------------------------------------------------------------------------
\* Properties of the aggregator
\* ------------------------------------------------------------------------

\* The condition under which the loop looks at a page's value of field f.
Usable(f, v) ==
    CASE f = "ship_date" -> v # None
      [] f = "mode"      -> v # None /\ v # "UNKNOWN"
      [] OTHER           -> Truthy(v)

PageIdx == 1..Len(page_results)

PriorityValues(f) ==
    {page_results[i][f] : i \in {j \in PageIdx : /\ is_priority(page_results[j])
                                                  /\ Usable(f, page_results[j][f])}}

PriorityNonNull(f) ==
    {page_results[i][f] : i \in {j \in PageIdx : /\ is_priority(page_results[j])
                                                  /\ page_results[j][f] # None}}

\* C1 (as amended): when some priority-class page carries a value the loop
\* accepts for a scalar shipping field (a non-empty string, a date, a mode
\* other than UNKNOWN), the aggregated value of that field is one of the
\* values such priority-class pages carry, in whatever order the pages came.
C1_PriorityValueWins ==
    agg_done =>
        \A f \in ScalarFields :
            PriorityValues(f) # {} => aggregated[f] \in PriorityValues(f)

\* C1 witness: a priority-class page set the field and a later ordinary page
\* carried a different accepted value for it.
C1_Witness ==
    /\ agg_done
    /\ focus \in ScalarFields
    /\ \E i, j \in PageIdx :
          /\ i < j
          /\ is_priority(page_results[i])
          /\ Usable(focus, page_results[i][focus])
          /\ ~is_priority(page_results[j])
          /\ Usable(focus, page_results[j][focus])
          /\ page_results[j][focus] # page_results[i][focus]
          /\ aggregated[focus] = page_results[i][focus]

\* C1 as originally stated: when some priority-class page carries a non-null
\* value for the field, the aggregated value is one a priority-class page
\* supplied.
C1_Original ==
    agg_done =>
        \A f \in ScalarFields :
            PriorityNonNull(f) # {} => aggregated[f] \in PriorityNonNull(f)

\* The first accepted value of field f among the priority-class pages.
FirstPriorityValue(f) ==
    LET idx == {j \in PageIdx : /\ is_priority(page_results[j])
                                /\ Usable(f, page_results[j][f])}
        first == CHOOSE i \in idx : \A k \in idx : i <= k
    IN  page_results[first][f]

\* C2: among priority-class pages the first value wins: once a priority-class
\* page has set a scalar shipping field, no later priority-class page with a
\* different value overwrites it.
C2_FirstPriorityWins ==
    agg_done =>
        \A f \in ScalarFields :
            PriorityValues(f) # {} => aggregated[f] = FirstPriorityValue(f)

ConfidenceRank(c) == CASE c = "LOW" -> 0 [] c = "MEDIUM" -> 1 [] c = "HIGH" -> 2

\* C3: for a non-empty page sequence the aggregate's confidence is the least
\* confident tag among the pages under LOW < MEDIUM < HIGH.
C3_LeastConfidence ==
    (agg_done /\ page_results # <<>>) =>
        /\ \E i \in PageIdx : page_results[i].confidence = aggregated.confidence
        /\ \A i \in PageIdx :
               ConfidenceRank(aggregated.confidence)
                   <= ConfidenceRank(page_results[i].confidence)

\* ------------------------------------------------------------------------
\* Properties of identifier matching
\* ------------------------------------------------------------------------

MatchIdx == 1..Len(match_result)

\* The positions in the result of the pairs of candidate c.
PairsOf(c) == {j \in MatchIdx : match_result[j][1] = c}

SomeRecord(c, Test(_, _)) ==
    \E i \in 1..Len(match_pdo_data) : Test(c, match_pdo_data[i])

\* C4: for each candidate independently the tiers are tried in the order
\* exact equality, containment in the storage key, last-5 equality, and the
\* first successful tier decides: a candidate equal to some record's
\* canonical identifier is paired with such a record, a containment match is
\* used only when no record matches by equality, a last-5 match only when no
\* record matches by equality or containment, and each candidate yields at
\* most one pair.
C4_TiersInOrder ==
    match_done =>
        \A k \in 1..Len(match_pdo_numbers) :
            LET c == match_pdo_numbers[k] IN
            /\ Cardinality(PairsOf(c)) <= 1
            /\ SomeRecord(c, ExactMatch) =>
                   \E j \in PairsOf(c) : ExactMatch(c, match_result[j][2])
            /\ (~SomeRecord(c, ExactMatch) /\ SomeRecord(c, SubstringMatch)) =>
                   \E j \in PairsOf(c) : SubstringMatch(c, match_result[j][2])
            /\ \A j \in PairsOf(c) :
                   (/\ ~ExactMatch(c, match_result[j][2])
                    /\ ~SubstringMatch(c, match_result[j][2]))
                       => (~SomeRecord(c, ExactMatch) /\ ~SomeRecord(c, SubstringMatch))

\* ------------------------------------------------------------------------
\* Properties of reconciliation
\* ------------------------------------------------------------------------

ReconAutoApply == ResolveAutoApply(recon_arg, recon_engine.auto_apply)

\* The 7-digit numbers the engine reads in the shipment's reference.
ReferenceNumbers == Range(FindDigitRuns(recon_input.reference, 1, PdoDigits))

\* Some ledger record carries one of the reference's numbers as its
\* identifier or inside its storage key.
ReconMatched ==
    \E n \in ReferenceNumbers, i \in 1..Len(recon_sap_data) :
        \/ recon_sap_data[i].pdo_number = n
        \/ Contains(recon_sap_data[i].sheet_name, n)

\* The matched ledger record (only used where ReconMatched holds).
MatchedSap == recon_sap_data[_find_matching_sap(recon_input.reference, recon_sap_data)]

IssuesOfType(t) ==
    {i \in 1..Len(recon_result.issues) : recon_result.issues[i].issue_type = t}

\* C5 (as amended): after reconcile_inbound with auto_apply true and a
\* matched ledger record, whatever issues were found, the shipment's currency
\* and total value equal the ledger record's; its brand list equals the
\* ledger's when the ledger's is non-empty and is unchanged otherwise; its
\* region splits equal the ledger's when those are non-empty and are
\* unchanged otherwise.
C5_AutoApplyLedgerValues ==
    (recon_done /\ ReconAutoApply /\ ReconMatched) =>
        /\ recon_shipment.currency = MatchedSap.currency
        /\ recon_shipment.total_value = MatchedSap.total_value
        /\ recon_shipment.brands =
               IF MatchedSap.brands # <<>> THEN MatchedSap.brands ELSE recon_input.brands
        /\ recon_shipment.country_splits =
               IF DOMAIN MatchedSap.country_splits # {}
               THEN MatchedSap.country_splits ELSE recon_input.country_splits

\* C5 witness: auto-apply on a matched shipment whose value is within the
\* tolerance (no value issue) but differs from the ledger's, with a currency
\* issue found, against a ledger record without brands.
C5_Witness ==
    /\ recon_done /\ ReconAutoApply /\ ReconMatched
    /\ IssuesOfType("CURRENCY_MISMATCH") # {}
    /\ IssuesOfType("VALUE_MISMATCH") = {}
    /\ recon_input.total_value = 105000
    /\ recon_shipment.total_value = 100000
    /\ MatchedSap.brands = <<>>
    /\ recon_input.brands # <<>>
    /\ recon_shipment.brands = recon_input.brands

\* C5 as originally stated: with auto_apply true and a matched ledger record
\* the shipment's currency, total value, brand list and region splits all
\* equal the ledger record's, also when the ledger's brand list or splits
\* are empty.
C5_Original ==
    (recon_done /\ ReconAutoApply /\ ReconMatched) =>
        /\ recon_shipment.currency = MatchedSap.currency
        /\ recon_shipment.total_value = MatchedSap.total_value
        /\ recon_shipment.brands = MatchedSap.brands
        /\ recon_shipment.country_splits = MatchedSap.country_splits

\* |shipment value - ledger value| / ledger value * 100 compared with a
\* percentage, for a positive ledger value.
DeviationAbove(pct) ==
    Abs(recon_input.total_value - MatchedSap.total_value) * 100
        > pct * MatchedSap.total_value
DeviationBelow(pct) ==
    Abs(recon_input.total_value - MatchedSap.total_value) * 100
        < pct * MatchedSap.total_value

\* What C6 says of the value-mismatch issues of a finished call.
ValueIssueRule ==
    /\ DeviationAbove(recon_engine.tolerance) <=> IssuesOfType("VALUE_MISMATCH") # {}
    /\ Cardinality(IssuesOfType("VALUE_MISMATCH")) <= 1
    /\ \A i \in IssuesOfType("VALUE_MISMATCH") :
          /\ recon_result.issues[i].severity =
                 IF DeviationBelow(WarningPercent) THEN "INFO" ELSE "WARNING"
          /\ recon_result.issues[i].auto_resolvable
    /\ (ReconAutoApply /\ IssuesOfType("VALUE_MISMATCH") # {}) =>
           recon_shipment.total_value = MatchedSap.total_value

\* C6 (as amended): on a matched shipment whose value is neither null nor
\* zero, reconcile_inbound produces a value-mismatch issue if and only if the
\* deviation in percent of the ledger value is strictly greater than the
\* tolerance; then exactly one, INFO under 10% and WARNING otherwise,
\* auto-resolvable, and with auto-apply the shipment's value is the ledger's
\* afterwards.
C6_ValueMismatch ==
    (/\ recon_done /\ ReconMatched
     /\ recon_input.total_value # NoneNum
     /\ recon_input.total_value # 0) => ValueIssueRule

\* C6 witness: 1200 against 1000 at the default tolerance gave exactly one
\* WARNING and auto-apply left the value at 1000.
C6_Witness ==
    /\ recon_done /\ ReconMatched /\ ReconAutoApply
    /\ recon_engine.tolerance = DefaultTolerance
    /\ recon_input.total_value = 120000
    /\ MatchedSap.total_value = 100000
    /\ Cardinality(IssuesOfType("VALUE_MISMATCH")) = 1
    /\ \A i \in IssuesOfType("VALUE_MISMATCH") :
           recon_result.issues[i].severity = "WARNING"
    /\ recon_shipment.total_value = 100000

\* C6 as originally stated: the same for every matched shipment with a
\* non-null value.
C6_Original ==
    (recon_done /\ ReconMatched /\ recon_input.total_value # NoneNum) => ValueIssueRule

\* C7: when no ledger record matches the shipment's reference the result
\* holds exactly one issue, missing-in-ledger with severity WARNING, no
\* matched ledger id, and the shipment is left as it was, for either value of
\* auto_apply.
C7_NoMatchLeavesShipment ==
    (recon_done /\ ~ReconMatched) =>
        /\ Len(recon_result.issues) = 1
        /\ recon_result.issues[1].issue_type = "MISSING_IN_SAP"
        /\ recon_result.issues[1].severity = "WARNING"
        /\ recon_result.matched_pdo = <<>>
        /\ recon_shipment = recon_input

\* C7 witness: auto-apply on, a non-empty ledger, a reference naming a number
\* the ledger does not hold, and shipment fields that differ from the ledger's.
C7_Witness ==
    /\ recon_done /\ ~ReconMatched /\ ReconAutoApply
    /\ recon_sap_data # <<>>
    /\ ReferenceNumbers # {}
    /\ recon_input.currency = "EUR"
    /\ recon_input.total_value = 120000
    /\ Len(recon_result.issues) = 1

\* ------------------------------------------------------------------------
\* Properties of validation
\* ------------------------------------------------------------------------

ErrorIssues == {i \in 1..Len(val_issues) : val_issues[i].severity = "ERROR"}

PdoDeviation == Abs(SumValues(val_pdo.country_splits) - val_pdo.total_value)

ShipmentDeviation ==
    Abs(SumValues(val_shipment.country_splits) - val_shipment.total_value)

SplitErrorReported ==
    \E i \in ErrorIssues : val_issues[i].field = "country_splits"

OnlySplitErrors ==
    /\ \A i \in ErrorIssues : val_issues[i].field = "country_splits"
    /\ val_shipment.validation_issues = val_issues

SplitsSumToTotal(data) == SumValues(data.country_splits) = data.total_value

\* The ledger records shipment k was built from.
BuiltFrom(k) == {shipment_matches[k][j][2] : j \in 1..Len(shipment_matches[k])}

\* C8: no ledger record whose region splits do not sum to its total value is
\* silently accepted and used to build shipments: a shipment built from such
\* a record carries an error-severity validation issue once validate_all has
\* gone through it.
C8_NoSilentAcceptance ==
    \A k \in 1..Len(self_inbound_shipments) :
        (/\ k <= calls.validated
         /\ \E data \in BuiltFrom(k) :
               data \in Range(self_sap_data) /\ ~SplitsSumToTotal(data))
            => has_errors(self_inbound_shipments[k])

\* The file name of shipment sh names exactly the identifier of the ledger
\* record data, and no other loaded record passes any test of the matcher
\* for that identifier.
FilenameIdentifies(sh, data, ledger) ==
    /\ PdoNumberSet(sh.source_files[1]) = {data.pdo_number}
    /\ \A other \in Range(ledger) : RecordMatches(data.pdo_number, other) => other = data

\* C13: whichever of load_sap_files and process_inbound_pdfs ran first, once
\* both have completed every inbound shipment whose file name identifies a
\* loaded ledger record carries that record's currency, total value and
\* region splits.
C13_OrderIndependent ==
    (calls.load >= 1 /\ calls.process >= 1) =>
        \A k \in 1..Len(self_inbound_shipments) :
            \A data \in Range(self_sap_data) :
                FilenameIdentifies(self_inbound_shipments[k], data, self_sap_data) =>
                    /\ self_inbound_shipments[k].currency = data.currency
                    /\ self_inbound_shipments[k].total_value = data.total_value
                    /\ self_inbound_shipments[k].country_splits = data.country_splits

\* The brand codes the PURCHASE_ORDER pages of the document carry.
PurchaseOrderBrands ==
    UNION {Range(page_results[i].brand_codes) :
              i \in {j \in PageIdx : page_results[j].document_type = "PURCHASE_ORDER"}}

\* C20: aggregate_inbound accepts brand codes only from PURCHASE_ORDER
\* pages: every brand code of the aggregate was supplied by some
\* PURCHASE_ORDER page, so codes that only pages of other document types
\* carry never appear in it.
C20_BrandsFromPurchaseOrders ==
    agg_done => Range(aggregated.brand_codes) \subseteq PurchaseOrderBrands

\* C20 witness: an aggregated document in which a page of another type
\* carries a brand code that no PURCHASE_ORDER page carries, beside a
\* PURCHASE_ORDER page whose code was accepted.
C20_Witness ==
    /\ agg_done
    /\ aggregated.brand_codes # <<>>
    /\ \E i \in PageIdx :
          /\ page_results[i].document_type # "PURCHASE_ORDER"
          /\ Range(page_results[i].brand_codes) \ PurchaseOrderBrands # {}

\* ------------------------------------------------------------------------
\* Specification: the page loop of process_inbound_pdfs over one document,
\* every page going through VisionExtractor.extract_from_image
\* ------------------------------------------------------------------------

MaxResponseLen == 3
MaxExtractPages == 2

ResponseTexts == UNION {[1..n -> ResponseTokens] : n \in 0..MaxResponseLen}

ApiOutcomes == {ApiText(t) : t \in ResponseTexts} \cup {ApiRateLimit, ApiError}

\* No API call is made when self.client raises.
ApiNotCalled == [kind |-> "not_called", text |-> <<>>]

ExtInit ==
    /\ ext_api_key \in BOOLEAN
    /\ ext_page_count \in 1..MaxExtractPages
    /\ ext_outcomes = <<>>
    /\ ext_results = <<>>
    /\ AggIdle /\ MatchIdle /\ ReconIdle /\ ValIdle /\ PipeIdle /\ SessIdle /\ LimIdle
    /\ AuditIdle /\ LateIdle

\* One iteration of "for page_num in range(page_count)".
ExtractFromImage ==
    /\ Len(ext_results) < ext_page_count
    /\ \E outcome \in (IF ext_api_key THEN ApiOutcomes ELSE {ApiNotCalled}) :
          /\ ext_outcomes' = Append(ext_outcomes, outcome)
          /\ ext_results' = Append(ext_results, extract_from_image(ext_api_key, outcome))
    /\ UNCHANGED <<ext_api_key, ext_page_count>>
    /\ UNCHANGED <<aggVars, matchVars, reconVars, valVars, pipeVars, sessVars, limVars,
                   auditVars, lateVars>>

ExtNext == ExtractFromImage

SpecExtract == ExtInit /\ [][ExtNext]_vars

\* ------------------------------------------------------------------------
\* Properties of VisionExtractor
\* ------------------------------------------------------------------------

\* The response holds no JSON object: no "{" with a "}" after it.
NoJsonObject(text) ==
    ~\E i, j \in 1..Len(text) : i < j /\ text[i] = "{" /\ text[j] = "}"

\* The response holds a JSON object that json.loads rejects.
MalformedJson(text) == ~NoJsonObject(text) /\ ~JsonWellFormed(JsonMatch(text))

UnparsedPages ==
    {i \in 1..Len(ext_results) :
        /\ ext_outcomes[i].kind = "text"
        /\ NoJsonObject(ext_outcomes[i].text) \/ MalformedJson(ext_outcomes[i].text)}

\* C19: extracting a page always returns an ExtractionResult; a response with
\* no JSON object or with malformed JSON gives document type UNKNOWN,
\* confidence LOW and the parse error in the error list; a run over several
\* pages yields one result per page.
C19_ParsingNeverThrows ==
    /\ Len(ext_results) = Len(ext_outcomes)
    /\ Len(ext_results) <= ext_page_count
    /\ \A i \in 1..Len(ext_results) :
          /\ ext_results[i].document_type \in DocumentType
          /\ ext_results[i].confidence \in ExtractionConfidence
    /\ \A i \in UnparsedPages :
          /\ ext_results[i].document_type = "UNKNOWN"
          /\ ext_results[i].confidence = "LOW"
          /\ ext_results[i].extraction_errors =
                <<IF NoJsonObject(ext_outcomes[i].text)
                  THEN "No JSON found in response" ELSE "JSON parse error">>

\* A two-page run whose first response has no JSON object and whose second
\* has a malformed one.
C19_Witness ==
    /\ ext_page_count = 2
    /\ Len(ext_results) = 2
    /\ ext_outcomes[1].kind = "text" /\ NoJsonObject(ext_outcomes[1].text)
    /\ ext_outcomes[2].kind = "text" /\ MalformedJson(ext_outcomes[2].text)

\* ------------------------------------------------------------------------
\* Specification of a session: one ProcessingPipeline whose operations are
\* called in any order, and a ReconciliationEngine run over its shipments
\* ------------------------------------------------------------------------

\* Calls per session.
MaxSessionCalls == 3

SessionSapFiles == {f \in SapFiles : f.name \in {"b.xlsx", "f.xlsx"}}

\* The uploads: a one-page air waybill "PDO 2600444", a two-page document
\* "PDO 2500444_NST" whose first response is prose and whose second call is
\* rate limited, and a file "bad" that is no readable PDF.
SessionDocs ==
    {[name |-> <<80, 68, 79, 32, 2, 6, 0, 0, 4, 4, 4>>, kind |-> "ok",
      outcomes |-> <<ApiText(<<"{", "document_type=AIR_WAYBILL", "}">>)>>],
     [name |-> <<80, 68, 79, 32, 2, 5, 0, 0, 4, 4, 4, 95, 78, 83, 84>>, kind |-> "ok",
      outcomes |-> <<ApiText(<<"txt">>), ApiRateLimit>>],
     [name |-> <<98, 97, 100>>, kind |-> "unreadable", outcomes |-> <<>>]}

\* The edits of a reviewer: the items of the updates dictionary.
SessionUpdates ==
    {<< <<"tracking_or_awb", "235-30462681">> >>,
     << <<"etd_date", "2025-09-23">>, <<"mode", "AIR">> >>,
     << <<"mode", "UNKNOWN">> >>}

DefaultEngine == [tolerance |-> DefaultTolerance, auto_apply |-> TRUE]

SessInit ==
    /\ sess_api_key \in BOOLEAN
    /\ sess_sap_data = <<>>
    /\ sess_inbound = <<>>
    /\ sess_audit = <<>>
    /\ sess_errors = <<>>
    /\ sess_validated = <<>>
    /\ sess_exported = <<>>
    /\ sess_last = NoCall
    /\ AggIdle /\ MatchIdle /\ ReconIdle /\ ValIdle /\ PipeIdle /\ ExtIdle /\ LimIdle
    /\ AuditIdle /\ LateIdle

SessUnchanged ==
    UNCHANGED <<aggVars, matchVars, reconVars, valVars, pipeVars, extVars, limVars,
                auditVars, lateVars>>

SessLoadSapFiles ==
    /\ sess_last.count < MaxSessionCalls
    /\ \E files \in ListsUpTo(SessionSapFiles, MaxFiles) :
         \E st \in load_sap_files(sess_sap_data, files) :
            /\ sess_sap_data' = st.sap_data
            /\ sess_errors' = st.errors
            /\ sess_audit' = sess_audit \o st.audit
            /\ sess_last' = Call("load_sap_files", FALSE, Len(files), 0, 0, 0,
                                 sess_last.count + 1)
    /\ UNCHANGED <<sess_api_key, sess_inbound, sess_validated, sess_exported>>
    /\ SessUnchanged

SessProcessInboundPdfs ==
    /\ sess_last.count < MaxSessionCalls
    /\ \E docs \in ListsUpTo(SessionDocs, MaxPdfs) :
         \E st \in process_inbound_pdfs(
                       sess_inbound, <<>>,
                       [i \in 1..Len(docs) |-> Extracted(sess_api_key, docs[i])],
                       sess_sap_data) :
            /\ sess_inbound' = st.shipments
            /\ sess_errors' = st.errors
            /\ sess_audit' = sess_audit \o st.audit
            /\ sess_validated' =
                   sess_validated
                       \o [i \in 1..(Len(st.shipments) - Len(sess_inbound)) |-> FALSE]
            /\ sess_last' = Call("process_inbound_pdfs", st.raised, Len(docs),
                                 Len(st.shipments) - Len(sess_inbound), st.extracted, 0,
                                 sess_last.count + 1)
    /\ UNCHANGED <<sess_api_key, sess_sap_data, sess_exported>>
    /\ SessUnchanged

SessValidateAll ==
    /\ sess_last.count < MaxSessionCalls
    /\ sess_inbound' = [i \in 1..Len(sess_inbound) |->
                           InboundShipment_validate(sess_inbound[i])]
    /\ sess_audit' = LogValidations(sess_audit, sess_inbound)
    /\ sess_validated' = [i \in 1..Len(sess_inbound) |-> TRUE]
    /\ sess_last' = Call("validate_all", FALSE, 0, 0, 0, 0, sess_last.count + 1)
    /\ UNCHANGED <<sess_api_key, sess_sap_data, sess_errors, sess_exported>>
    /\ SessUnchanged

SessGenerateExcel ==
    /\ sess_last.count < MaxSessionCalls
    /\ LET out == generate_excel(sess_inbound, sess_audit)
       IN  /\ sess_audit' = out.audit
           /\ sess_exported' = [i \in 1..Len(out.rows) |-> sess_validated[i]]
    /\ sess_last' = Call("generate_excel", FALSE, 0, 0, 0, 0, sess_last.count + 1)
    /\ UNCHANGED <<sess_api_key, sess_sap_data, sess_inbound, sess_errors, sess_validated>>
    /\ SessUnchanged

SessUpdateInboundShipment ==
    /\ sess_last.count < MaxSessionCalls
    /\ \E index \in 0..1, updates \in SessionUpdates :
         LET out == update_inbound_shipment(sess_inbound, sess_audit, index, updates)
         IN  /\ sess_inbound' = out.shipments
             /\ sess_audit' = out.audit
             /\ sess_last' = Call("update_inbound_shipment", FALSE, 0, 0, 0, index,
                                  sess_last.count + 1)
    /\ UNCHANGED <<sess_api_key, sess_sap_data, sess_errors, sess_validated, sess_exported>>
    /\ SessUnchanged

SessReconcileBatch ==
    /\ sess_last.count < MaxSessionCalls
    /\ sess_inbound' = reconcile_batch(DefaultEngine, sess_inbound, sess_sap_data)
    /\ sess_last' = Call("reconcile_batch", FALSE, 0, 0, 0, 0, sess_last.count + 1)
    /\ UNCHANGED <<sess_api_key, sess_sap_data, sess_audit, sess_errors,
                   sess_validated, sess_exported>>
    /\ SessUnchanged

SessClear ==
    /\ sess_last.count < MaxSessionCalls
    /\ sess_sap_data' = <<>>
    /\ sess_inbound' = <<>>
    /\ sess_audit' = <<>>
    /\ sess_validated' = <<>>
    /\ sess_last' = Call("clear", FALSE, 0, 0, 0, 0, sess_last.count + 1)
    /\ UNCHANGED <<sess_api_key, sess_errors, sess_exported>>
    /\ SessUnchanged

SessNext ==
    \/ SessLoadSapFiles
    \/ SessProcessInboundPdfs
    \/ SessValidateAll
    \/ SessGenerateExcel
    \/ SessUpdateInboundShipment
    \/ SessReconcileBatch
    \/ SessClear

SpecSession == SessInit /\ [][SessNext]_vars

\* ------------------------------------------------------------------------
\* Properties of the session
\* ------------------------------------------------------------------------

\* C11: generate_excel exports a shipment only after validate() has been
\* invoked on it at least once.
C11_ValidatedBeforeExport ==
    \A i \in 1..Len(sess_exported) : sess_exported[i]

\* C12: when update_inbound_shipment has returned, the validation issues
\* stored on the edited shipment are those validate() yields for its current
\* fields (stated for shipments validate() has been invoked on before).
C12_NoStaleValidation ==
    (/\ sess_last.op = "update_inbound_shipment"
     /\ sess_last.index < Len(sess_inbound)
     /\ sess_validated[sess_last.index + 1])
        => sess_inbound[sess_last.index + 1].validation_issues
               = InboundIssues(sess_inbound[sess_last.index + 1])

\* The shipment fields that hold shipment data.
DataFields ==
    {"etd_date", "tracking_or_awb", "incoterms", "mode", "flight_vessel",
     "origin_country", "destination_country", "brands", "description", "currency",
     "total_value", "country_splits"}

SourceTags == {"AI", "LEDGER", "USER", "SYSTEM"}

\* C14: every change of a data field of a shipment comes with a new audit
\* entry naming the shipment, the field, the old value, the new value and a
\* source tag.
C14_EveryMutationAudited ==
    [][\A k \in 1..Len(sess_inbound) :
          k <= Len(sess_inbound') =>
            \A f \in DataFields :
               sess_inbound[k][f] # sess_inbound'[k][f] =>
                  \E i \in (Len(sess_audit) + 1)..Len(sess_audit') :
                     /\ sess_audit'[i].record_reference = sess_inbound[k].reference
                     /\ sess_audit'[i].field_name = f
                     /\ sess_audit'[i].old_value = sess_inbound[k][f]
                     /\ sess_audit'[i].new_value = sess_inbound'[k][f]
                     /\ sess_audit'[i].source \in SourceTags]_vars

\* C17: without an API key process_inbound_pdfs halts with an error before
\* any page is extracted and before any shipment is created.
C17_MissingKeyIsFatal ==
    (sess_last.op = "process_inbound_pdfs" /\ ~sess_api_key) =>
        /\ sess_last.raised
        /\ sess_last.extracted = 0
        /\ sess_last.appended = 0

\* C18: load_sap_files and process_inbound_pdfs on a batch of several files
\* return normally whatever files the batch holds, and every document of the
\* batch has left either its shipment or an entry in progress.errors.
C18_BadFileNeverAborts ==
    (sess_last.op \in {"load_sap_files", "process_inbound_pdfs"} /\ sess_last.batch >= 2)
        => /\ ~sess_last.raised
           /\ sess_last.op = "process_inbound_pdfs" =>
                  sess_last.appended + Len(sess_errors) = sess_last.batch

\* ------------------------------------------------------------------------
\* utils/helpers.py: RateLimiter, called from several threads
\* ------------------------------------------------------------------------

WaitTime_NoDelay(t_now, t_last, delay) == 0

\* wait_time as wait() computes it from now = time.time().
WaitTime(t_now, t_last, delay) ==
    IF t_last # NoneNum /\ t_now - t_last < delay THEN delay - (t_now - t_last) ELSE 0

\* Clock ticks per run, delays, wait() calls between two resets.
MaxTime == 4
MaxDelay == 2
MaxWaitCalls == 3

LimInit ==
    /\ clock = 0
    /\ min_delay \in 1..MaxDelay
    /\ last_call_time = NoneNum
    /\ call_count = 0
    /\ limiter_lock = 0
    /\ wait_pc = [t \in Threads |-> "idle"]
    /\ wait_time = [t \in Threads |-> 0]
    /\ wake_time = [t \in Threads |-> 0]
    /\ call_times = <<>>
    /\ AggIdle /\ MatchIdle /\ ReconIdle /\ ValIdle /\ PipeIdle /\ ExtIdle /\ SessIdle
    /\ AuditIdle /\ LateIdle

LimUnchanged ==
    UNCHANGED <<aggVars, matchVars, reconVars, valVars, pipeVars, extVars, sessVars,
                auditVars, lateVars>>

\* Time passes.
Tick ==
    /\ clock < MaxTime
    /\ clock' = clock + 1
    /\ UNCHANGED <<min_delay, last_call_time, call_count, limiter_lock,
                   wait_pc, wait_time, wake_time, call_times>>
    /\ LimUnchanged

\* wait(): "with self._lock:" is entered.
WaitAcquire(t) ==
    /\ wait_pc[t] = "idle"
    /\ limiter_lock = 0
    /\ call_count < MaxWaitCalls
    /\ limiter_lock' = t
    /\ wait_pc' = [wait_pc EXCEPT ![t] = "check"]
    /\ UNCHANGED <<clock, min_delay, last_call_time, call_count,
                   wait_time, wake_time, call_times>>
    /\ LimUnchanged

\* wait(): now = time.time(), wait_time is computed and, when it is positive,
\* time.sleep(wait_time) starts.
WaitCheck(t) ==
    /\ wait_pc[t] = "check"
    /\ wait_time' = [wait_time EXCEPT ![t] = WaitTime(clock, last_call_time, min_delay)]
    /\ wake_time' = [wake_time EXCEPT ![t] = clock + wait_time'[t]]
    /\ wait_pc' = [wait_pc EXCEPT ![t] = IF wait_time'[t] > 0 THEN "sleep" ELSE "record"]
    /\ UNCHANGED <<clock, min_delay, last_call_time, call_count, limiter_lock, call_times>>
    /\ LimUnchanged

\* wait(): time.sleep returns, not before wait_time has passed.
WaitSleep(t) ==
    /\ wait_pc[t] = "sleep"
    /\ clock >= wake_time[t]
    /\ wait_pc' = [wait_pc EXCEPT ![t] = "record"]
    /\ UNCHANGED <<clock, min_delay, last_call_time, call_count, limiter_lock,
                   wait_time, wake_time, call_times>>
    /\ LimUnchanged

\* wait(): self.last_call_time = time.time(), the call is counted, the lock
\* is released and wait_time returned.
WaitRecord(t) ==
    /\ wait_pc[t] = "record"
    /\ last_call_time' = clock
    /\ call_count' = call_count + 1
    /\ call_times' = Append(call_times,
                            [thread |-> t, time |-> clock, waited |-> wait_time[t]])
    /\ limiter_lock' = 0
    /\ wait_pc' = [wait_pc EXCEPT ![t] = "idle"]
    /\ UNCHANGED <<clock, min_delay, wait_time, wake_time>>
    /\ LimUnchanged

\* reset(): "with self._lock:" is entered.
ResetAcquire(t) ==
    /\ wait_pc[t] = "idle"
    /\ limiter_lock = 0
    /\ call_count > 0
    /\ limiter_lock' = t
    /\ wait_pc' = [wait_pc EXCEPT ![t] = "reset"]
    /\ UNCHANGED <<clock, min_delay, last_call_time, call_count,
                   wait_time, wake_time, call_times>>
    /\ LimUnchanged

\* reset(): the state is cleared and the lock released.
ResetClear(t) ==
    /\ wait_pc[t] = "reset"
    /\ last_call_time' = NoneNum
    /\ call_count' = 0
    /\ call_times' = <<>>
    /\ limiter_lock' = 0
    /\ wait_pc' = [wait_pc EXCEPT ![t] = "idle"]
    /\ UNCHANGED <<clock, min_delay, wait_time, wake_time>>
    /\ LimUnchanged

LimNext ==
    \/ Tick
    \/ \E t \in Threads : WaitAcquire(t)
    \/ \E t \in Threads : WaitCheck(t)
    \/ \E t \in Threads : WaitSleep(t)
    \/ \E t \in Threads : WaitRecord(t)
    \/ \E t \in Threads : ResetAcquire(t)
    \/ \E t \in Threads : ResetClear(t)

SpecLimiter == LimInit /\ [][LimNext]_vars

\* The threads inside the locked part of wait() or reset().
InLimiter == {t \in Threads : wait_pc[t] # "idle"}

\* C15: under any interleaving of threads, the first wait() after
\* construction or reset does not wait; the check-wait-record sequence of one
\* call is never interleaved with that of another; successive recorded call
\* times are at least min_delay apart.
C15_RateLimiterSerialises ==
    /\ Cardinality(InLimiter) <= 1
    /\ \A t \in InLimiter : limiter_lock = t
    /\ call_times # <<>> => call_times[1].waited = 0
    /\ (call_times = <<>> /\ last_call_time = NoneNum) =>
           \A t \in Threads : wait_pc[t] \in {"sleep", "record"} => wait_time[t] = 0
    /\ \A i \in 1..(Len(call_times) - 1) :
           call_times[i + 1].time - call_times[i].time >= min_delay
    /\ Len(call_times) = call_count

\* Two threads have called wait(); the second one had to sleep, and a third
\* call stands in its sleep while the other thread is kept out.
C15_Witness ==
    /\ Len(call_times) = 2
    /\ call_times[1].thread # call_times[2].thread
    /\ call_times[2].waited > 0
    /\ \E t \in Threads : wait_pc[t] = "sleep" /\ clock < wake_time[t]

\* ------------------------------------------------------------------------
\* utils/helpers.py: AuditTrail, called from several threads
\* ------------------------------------------------------------------------

\* Entries per run.
MaxAuditEntries == 3

\* The entries the threads log: an extraction, a reviewer edit, an export.
LoggedEntries ==
    {AuditEntry("EXTRACTED", <<98, 97, 100>>, "page_1", None, "UNKNOWN", "AI"),
     AuditEntry("USER_EDIT", <<98, 97, 100>>, "mode", "UNKNOWN", "AIR", "USER"),
     AuditEntry("EXPORTED", <<98, 97, 100>>, None, None, "Excel", "SYSTEM")}

AuditInit ==
    /\ audit_entries = <<>>
    /\ audit_lock = 0
    /\ audit_pc = [t \in Threads |-> "idle"]
    /\ audit_pending = [t \in Threads |-> <<>>]
    /\ AggIdle /\ MatchIdle /\ ReconIdle /\ ValIdle /\ PipeIdle /\ ExtIdle /\ SessIdle
    /\ LimIdle /\ LateIdle

AuditUnchanged ==
    UNCHANGED <<aggVars, matchVars, reconVars, valVars, pipeVars, extVars, sessVars,
                limVars, lateVars>>

\* A thread calls log(...); the call has not entered the lock yet.
LogCall(t) ==
    /\ audit_pc[t] = "idle"
    /\ Len(audit_entries) + Cardinality({u \in Threads : audit_pc[u] \in {"log", "append"}})
           < MaxAuditEntries
    /\ \E entry \in LoggedEntries :
          audit_pending' = [audit_pending EXCEPT ![t] = <<entry>>]
    /\ audit_pc' = [audit_pc EXCEPT ![t] = "log"]
    /\ UNCHANGED <<audit_entries, audit_lock>>
    /\ AuditUnchanged

\* log(): "with self._lock:" is entered and the AuditEntry built.
LogAcquire(t) ==
    /\ audit_pc[t] = "log"
    /\ audit_lock = 0
    /\ audit_lock' = t
    /\ audit_pc' = [audit_pc EXCEPT ![t] = "append"]
    /\ UNCHANGED <<audit_entries, audit_pending>>
    /\ AuditUnchanged

\* log(): self.entries.append(entry), and the lock is released.
LogAppend(t) ==
    /\ audit_pc[t] = "append"
    /\ audit_entries' = AppendEntry(audit_entries, audit_pending[t][1])
    /\ audit_pending' = [audit_pending EXCEPT ![t] = <<>>]
    /\ audit_lock' = 0
    /\ audit_pc' = [audit_pc EXCEPT ![t] = "idle"]
    /\ AuditUnchanged

\* clear(): "with self._lock:" is entered.
ClearAcquire(t) ==
    /\ audit_pc[t] = "idle"
    /\ audit_lock = 0
    /\ audit_entries # <<>>
    /\ audit_lock' = t
    /\ audit_pc' = [audit_pc EXCEPT ![t] = "clear"]
    /\ UNCHANGED <<audit_entries, audit_pending>>
    /\ AuditUnchanged

\* clear(): self.entries.clear(), and the lock is released.
ClearEntries(t) ==
    /\ audit_pc[t] = "clear"
    /\ audit_entries' = <<>>
    /\ audit_lock' = 0
    /\ audit_pc' = [audit_pc EXCEPT ![t] = "idle"]
    /\ UNCHANGED audit_pending
    /\ AuditUnchanged

AuditNext ==
    \/ \E t \in Threads : LogCall(t)
    \/ \E t \in Threads : LogAcquire(t)
    \/ \E t \in Threads : LogAppend(t)
    \/ \E t \in Threads : ClearAcquire(t)
    \/ \E t \in Threads : ClearEntries(t)

SpecAudit == AuditInit /\ [][AuditNext]_vars

\* The threads whose log() call returns in this step.
LogReturns == {t \in Threads : audit_pc[t] = "append" /\ audit_pc'[t] = "idle"}

\* The step belongs to clear().
ClearStep == \E t \in Threads : audit_pc[t] = "clear" /\ audit_pc'[t] = "idle"

\* C16: with concurrent callers, every log() call adds exactly one entry, its
\* own, at the end of the trail, and no step of a log() call changes or
\* removes an entry that is already there; only clear() empties the trail.
C16_LogAppendOnly ==
    [][/\ \A t \in LogReturns :
             audit_entries' = audit_entries \o audit_pending[t]
       /\ (LogReturns = {} /\ ~ClearStep) => audit_entries' = audit_entries
       /\ Cardinality(LogReturns) <= 1]_vars

\* An entry has been logged, one thread holds the lock and is about to
\* append its entry, and another thread's log() call waits for the lock.
C16_Witness ==
    /\ Len(audit_entries) = 1
    /\ \E t, u \in Threads :
          /\ audit_pc[t] = "append" /\ audit_pc[u] = "log"
          /\ audit_pending[t] # audit_pending[u]
          /\ audit_pending[t][1] # audit_entries[1]

\* ------------------------------------------------------------------------
\* Properties of the aggregator: flight numbers, vessels, containers
\* ------------------------------------------------------------------------

PageFlights == UNION {Range(page_results[i].flight_numbers) : i \in PageIdx}

PageVessels ==
    {page_results[i].vessel_info : i \in {j \in PageIdx : Truthy(page_results[j].vessel_info)}}

PageContainers ==
    {page_results[i].container_number :
        i \in {j \in PageIdx : Truthy(page_results[j].container_number)}}

NoDuplicates(s) == \A i, j \in 1..Len(s) : s[i] = s[j] => i = j

\* The flight-number half of C21: the aggregate's flight numbers are the set
\* union of the pages' flight numbers, each once.
FlightsAreUnion ==
    agg_done => /\ Range(aggregated.flight_numbers) = PageFlights
                /\ NoDuplicates(aggregated.flight_numbers)

\* C21: flight numbers, vessel identifiers and container identifiers are
\* merged as a set union across all pages: every distinct value seen on any
\* page is retained in the aggregate exactly once.
C21_TransportUnion ==
    agg_done =>
        /\ Range(aggregated.flight_numbers) = PageFlights
        /\ NoDuplicates(aggregated.flight_numbers)
        /\ \A v \in PageVessels : v = aggregated.vessel_info
        /\ \A c \in PageContainers : c = aggregated.container_number

\* The display string the resolved mode calls for: for SEA the vessel name,
\* with " / " and the container number when one was seen; otherwise the
\* flight numbers joined with " / ".
ExpectedDisplay ==
    IF aggregated.mode = "SEA"
    THEN IF Truthy(aggregated.vessel_info)
         THEN IF Truthy(aggregated.container_number)
              THEN <<aggregated.vessel_info, " / ", aggregated.container_number>>
              ELSE <<aggregated.vessel_info>>
         ELSE NoDisplay
    ELSE JoinSlash(aggregated.flight_numbers)

\* The aggregator half of C26: aggregated['flight_vessel'] is that string.
AggregateDisplay == agg_done => aggregated.flight_vessel = ExpectedDisplay

\* C26: the flight_vessel of the aggregate, and of the inbound shipment the
\* pipeline builds from the aggregate, is the display string the resolved
\* mode calls for.
C26_DisplayString ==
    agg_done =>
        /\ aggregated.flight_vessel = ExpectedDisplay
        /\ \A sh \in _create_inbound_shipment(<<105, 110, 118>>, <<>>, aggregated, <<>>) :
               sh.flight_vessel = ExpectedDisplay

\* ------------------------------------------------------------------------
\* vision_extractor.py: the brand_codes of _parse_inbound_response
\* ------------------------------------------------------------------------

\* str.isalpha() of one character, for the letters of the ASCII range.
IsAlpha(c) == c \in 65..90 \/ c \in 97..122

\* str.upper() on a text.
UpperText(s) == [i \in 1..Len(s) |-> IF s[i] \in 97..122 THEN s[i] - 32 ELSE s[i]]

\* str.strip(): the text without its leading and trailing white space.
Strip(s) ==
    LET inked == {i \in 1..Len(s) : ~IsSpace(s[i])}
    IN  IF inked = {} THEN <<>>
        ELSE SubSeq(s, CHOOSE i \in inked : \A j \in inked : i <= j,
                       CHOOSE i \in inked : \A j \in inked : j <= i)

\* str.split(sep) for a separator of one character.
RECURSIVE Split(_, _)
Split(s, sep) ==
    LET hits == {i \in 1..Len(s) : s[i] = sep}
    IN  IF hits = {} THEN <<s>>
        ELSE LET i == CHOOSE h \in hits : \A k \in hits : h <= k
             IN  <<SubSeq(s, 1, i - 1)>> \o Split(SubSeq(s, i + 1, Len(s)), sep)

\* The values json.loads can give for a member: a string, a list whose
\* items are strings or numbers, null, a number, an object.
JsonStr(text) == [kind |-> "str", text |-> text]
JsonList(items) == [kind |-> "list", items |-> items]
JsonOther == {[kind |-> "null"], [kind |-> "int"], [kind |-> "dict"]}

\* "[b.strip().upper() for b in brand_codes.split(',') if b.strip()]".
BrandCodesOfString(text) ==
    LET parts == Split(text, 44)
        kept == SelectSeq(parts, LAMBDA b : Strip(b) # <<>>)
    IN  [i \in 1..Len(kept) |-> UpperText(Strip(kept[i]))]

\* "isinstance(code, str) and len(code.strip()) == 3 and code.strip().isalpha()".
ValidCode(code) ==
    /\ code.kind = "str"
    /\ Len(Strip(code.text)) = 3
    /\ \A i \in 1..3 : IsAlpha(Strip(code.text)[i])

\* The list branch: valid_codes, then list(set(valid_codes)) in any of the
\* orders a set can be listed in.
BrandCodesOfList(items) ==
    SetOrders({UpperText(Strip(items[i].text)) : i \in {j \in 1..Len(items) : ValidCode(items[j])}})

\* The brand_codes block of _parse_inbound_response: the lists it can give.
ParseBrandCodes(value) ==
    IF value.kind = "str" THEN {BrandCodesOfString(value.text)}
    ELSE IF value.kind = "list" THEN BrandCodesOfList(value.items)
    ELSE {<<>>}

\* ------------------------------------------------------------------------
\* Specification: one response parsed for its brand codes
\* ------------------------------------------------------------------------

MaxBrandItems == 3

\* Candidates a response can carry: "NST", "nst", " HLC ", "NSTX", "12",
\* "NS", "N1T", " ", "".
BrandCandidates ==
    {<<78, 83, 84>>, <<110, 115, 116>>, <<32, 72, 76, 67, 32>>, <<78, 83, 84, 88>>,
     <<1, 2>>, <<78, 83>>, <<78, 1, 84>>, <<32>>, <<>>}

CandidateLists == UNION {[1..n -> BrandCandidates] : n \in 0..MaxBrandItems}

\* ",".join(candidates).
RECURSIVE JoinComma(_)
JoinComma(cands) ==
    IF cands = <<>> THEN <<>>
    ELSE IF Len(cands) = 1 THEN cands[1]
    ELSE cands[1] \o <<44>> \o JoinComma(Tail(cands))

BrandItems == {JsonStr(c) : c \in BrandCandidates} \cup {[kind |-> "int"]}

BrandFields ==
    {JsonStr(JoinComma(l)) : l \in CandidateLists}
        \cup {JsonList(l) : l \in UNION {[1..n -> BrandItems] : n \in 0..MaxBrandItems}}
        \cup JsonOther

BrandInit ==
    /\ brand_field \in BrandFields
    /\ brand_result = <<>>
    /\ brand_done = FALSE
    /\ AggIdle /\ MatchIdle /\ ReconIdle /\ ValIdle /\ PipeIdle
    /\ ExtIdle /\ SessIdle /\ LimIdle /\ AuditIdle /\ NormIdle /\ ClassIdle /\ OutIdle

\* _parse_inbound_response on a PURCHASE_ORDER response with this
\* brand_codes member.
ParseInboundResponse ==
    /\ ~brand_done
    /\ \E codes \in ParseBrandCodes(brand_field) :
          brand_result' =
              [_parse_inbound_response([k \in {"document_type"} |-> "PURCHASE_ORDER"], <<>>)
                  EXCEPT !.brand_codes = codes]
    /\ brand_done' = TRUE
    /\ UNCHANGED brand_field
    /\ UNCHANGED <<aggVars, matchVars, reconVars, valVars, pipeVars, extVars, sessVars,
                   limVars, auditVars, normVars, classVars, outVars>>

BrandNext == ParseInboundResponse

SpecBrand == BrandInit /\ [][BrandNext]_vars

\* A brand code as the result should carry it: three letters in upper case.
IsBrandCode(code) == Len(code) = 3 /\ \A i \in 1..3 : code[i] \in 65..90

\* The list half of C22: a brand-code member that is a list gives only
\* three-letter upper-case codes, each once.
ListBrandCodesValid ==
    (brand_done /\ brand_field.kind = "list") =>
        /\ \A i \in 1..Len(brand_result.brand_codes) : IsBrandCode(brand_result.brand_codes[i])
        /\ NoDuplicates(brand_result.brand_codes)

\* C22: every brand code of the parsed ExtractionResult is three upper-case
\* letters and appears once, whether the member was a list or a
\* comma-delimited string.
C22_BrandCodesValid ==
    brand_done =>
        /\ \A i \in 1..Len(brand_result.brand_codes) : IsBrandCode(brand_result.brand_codes[i])
        /\ NoDuplicates(brand_result.brand_codes)

\* ------------------------------------------------------------------------
\* utils/helpers.py: normalize_tracking_number, normalize_awb_number
\* ------------------------------------------------------------------------

\* str.isalnum() of one character.
IsAlnum(c) == IsDigit(c) \/ IsAlpha(c)

\* ''.join(c for c in text if c.isalnum()).
Clean(text) == SelectSeq(text, IsAlnum)

\* normalize_tracking_number: "" for an empty text.
normalize_tracking_number(tracking) == Clean(tracking)

AwbDigits == 11

AwbPrefixDigits == 3

\* The 11-digit branch with the dash put one place early.
FormatAwb_DashAfterTwo(clean) ==
    SubSeq(clean, 1, AwbPrefixDigits - 1) \o <<45>> \o SubSeq(clean, AwbPrefixDigits, Len(clean))

\* f"{clean[:3]}-{clean[3:]}".
FormatAwb(clean) ==
    SubSeq(clean, 1, AwbPrefixDigits) \o <<45>> \o SubSeq(clean, AwbPrefixDigits + 1, Len(clean))

\* normalize_awb_number.
normalize_awb_number(awb) ==
    IF awb = <<>> THEN <<>>
    ELSE IF Len(Clean(awb)) = AwbDigits /\ AllDigits(Clean(awb)) THEN FormatAwb(Clean(awb))
    ELSE IF \E i \in 1..Len(awb) : awb[i] = 45
         THEN LET parts == Split(awb, 45)
              IN  IF Len(parts) = 2
                  THEN Strip(parts[1]) \o <<45>> \o Strip(parts[2])
                  ELSE awb
         ELSE awb

\* ------------------------------------------------------------------------
\* Specification: one identifier normalized
\* ------------------------------------------------------------------------

MaxSegments == 4

\* What an identifier is made of: "235", "30462681", "3046", "2681", "AB",
\* " ", "-", ".".
NumberSegments ==
    {<<2, 3, 5>>, <<3, 0, 4, 6, 2, 6, 8, 1>>, <<3, 0, 4, 6>>, <<2, 6, 8, 1>>, <<65, 66>>,
     <<32>>, <<45>>, <<46>>}

RECURSIVE Concat(_)
Concat(segs) == IF segs = <<>> THEN <<>> ELSE Head(segs) \o Concat(Tail(segs))

NumberTexts == {Concat(l) : l \in UNION {[1..n -> NumberSegments] : n \in 0..MaxSegments}}

NormInit ==
    /\ number_text \in NumberTexts
    /\ normalized_awb = <<>>
    /\ normalized_tracking = <<>>
    /\ norm_done = {}
    /\ AggIdle /\ MatchIdle /\ ReconIdle /\ ValIdle /\ PipeIdle
    /\ ExtIdle /\ SessIdle /\ LimIdle /\ AuditIdle /\ BrandIdle /\ ClassIdle /\ OutIdle

NormUnchanged ==
    UNCHANGED <<aggVars, matchVars, reconVars, valVars, pipeVars, extVars, sessVars,
                limVars, auditVars, brandVars, classVars, outVars>>

NormalizeAwb ==
    /\ "awb" \notin norm_done
    /\ normalized_awb' = normalize_awb_number(number_text)
    /\ norm_done' = norm_done \cup {"awb"}
    /\ UNCHANGED <<number_text, normalized_tracking>>
    /\ NormUnchanged

NormalizeTracking ==
    /\ "tracking" \notin norm_done
    /\ normalized_tracking' = normalize_tracking_number(number_text)
    /\ norm_done' = norm_done \cup {"tracking"}
    /\ UNCHANGED <<number_text, normalized_awb>>
    /\ NormUnchanged

NormNext == NormalizeAwb \/ NormalizeTracking

SpecNorm == NormInit /\ [][NormNext]_vars

\* DDD-DDDDDDDD.
IsAwbForm(text) ==
    /\ Len(text) = AwbDigits + 1
    /\ text[AwbPrefixDigits + 1] = 45
    /\ AllDigits(SubSeq(text, 1, AwbPrefixDigits))
    /\ AllDigits(SubSeq(text, AwbPrefixDigits + 2, Len(text)))

\* text without the characters that are not alphanumeric, in its order.
RECURSIVE WithoutPunctuation(_)
WithoutPunctuation(text) ==
    IF text = <<>> THEN <<>>
    ELSE IF IsDigit(Head(text)) \/ Head(text) \in 65..90 \/ Head(text) \in 97..122
         THEN <<Head(text)>> \o WithoutPunctuation(Tail(text))
         ELSE WithoutPunctuation(Tail(text))

\* C25: both normalizations are idempotent; an AWB id in DDD-DDDDDDDD form
\* is unchanged, 11 digits get a dash after the third, and tracking
\* normalization removes every character that is not alphanumeric.
C25_NormalizationIdempotent ==
    /\ "awb" \in norm_done =>
          /\ normalize_awb_number(normalized_awb) = normalized_awb
          /\ IsAwbForm(number_text) => normalized_awb = number_text
          /\ (Len(number_text) = AwbDigits /\ AllDigits(number_text)) =>
                normalized_awb = SubSeq(number_text, 1, 3) \o <<45>> \o SubSeq(number_text, 4, 11)
    /\ "tracking" \in norm_done =>
          /\ normalize_tracking_number(normalized_tracking) = normalized_tracking
          /\ normalized_tracking = WithoutPunctuation(number_text)

\* "235 30462681" has been normalized both ways.
C25_Witness ==
    /\ norm_done = {"awb", "tracking"}
    /\ number_text = <<2, 3, 5, 32, 3, 0, 4, 6, 2, 6, 8, 1>>
    /\ normalized_awb = <<2, 3, 5, 45, 3, 0, 4, 6, 2, 6, 8, 1>>
    /\ normalized_tracking = <<2, 3, 5, 3, 0, 4, 6, 2, 6, 8, 1>>

\* ------------------------------------------------------------------------
\* classifiers/product_classifier.py: ProductClassifier
\* ------------------------------------------------------------------------

\* str.lower().
Lower(s) == [i \in 1..Len(s) |-> IF s[i] \in 65..90 THEN s[i] + 32 ELSE s[i]]

\* \w of the re module.
IsWordChar(c) == IsDigit(c) \/ IsAlpha(c) \/ c = 95

\* \b holds in front of position i of s (i = Len(s) + 1: at the end).
Boundary(s, i) ==
    (i - 1 >= 1 /\ IsWordChar(s[i - 1])) # (i <= Len(s) /\ IsWordChar(s[i]))

\* The text w stands at position i of s.
At(s, w, i) == i >= 1 /\ i + Len(w) - 1 <= Len(s) /\ SubSeq(s, i, i + Len(w) - 1) = w

\* \bw\b matches at position i.
WordAt(s, w, i) == At(s, w, i) /\ Boundary(s, i) /\ Boundary(s, i + Len(w))

\* re.search(pattern, s) finds a match, for the shapes keyword_patterns uses.
Search(pattern, s) ==
    LET a == pattern.a
        b == pattern.b
        pos == 1..Len(s)
    IN  CASE pattern.kind = "word" -> \E i \in pos : WordAt(s, a, i)
          [] pattern.kind = "prefix" -> \E i \in pos : At(s, a, i) /\ Boundary(s, i)
          [] pattern.kind = "then" ->
                \E i \in pos :
                    /\ WordAt(s, a, i)
                    /\ \E j \in (i + Len(a))..Len(s) : WordAt(s, b, j)
          [] pattern.kind = "dosage" ->
                \E i \in pos :
                    /\ Boundary(s, i)
                    /\ IsDigit(s[i])
                    /\ \E k \in 1..DigitRun(s, i) :
                          /\ At(s, a, i + k)
                          /\ Boundary(s, i + k + Len(a))
                          /\ \E j \in (i + k + Len(a))..Len(s) : WordAt(s, b, j)
          [] pattern.kind = "optional" ->
                \E i \in pos :
                    /\ At(s, a, i)
                    /\ Boundary(s, i)
                    /\ \E gap \in {0, 1} :
                          /\ At(s, b, i + Len(a) + gap)
                          /\ Boundary(s, i + Len(a) + gap + Len(b))
          [] pattern.kind = "spaced" ->
                \E i \in pos :
                    /\ At(s, a, i)
                    /\ Boundary(s, i)
                    /\ At(s, b, i + Len(a) + SpaceRun(s, i + Len(a)))
                    /\ Boundary(s, i + Len(a) + SpaceRun(s, i + Len(a)) + Len(b))

\* self.verbatim_labels, in the order of the dictionary.
verbatim_labels ==
    <<[name |-> "skincare products & oral supplements", label |-> <<115, 107, 105, 110, 99, 97, 114, 101, 32, 112, 114, 111, 100, 117, 99, 116, 115, 32, 38, 32, 111, 114, 97, 108, 32, 115, 117, 112, 112, 108, 101, 109, 101, 110, 116, 115>>,
       categories |-> {"Skincare Products", "Oral Supplements"}],
      [name |-> "skincare products and oral supplements", label |-> <<115, 107, 105, 110, 99, 97, 114, 101, 32, 112, 114, 111, 100, 117, 99, 116, 115, 32, 97, 110, 100, 32, 111, 114, 97, 108, 32, 115, 117, 112, 112, 108, 101, 109, 101, 110, 116, 115>>,
       categories |-> {"Skincare Products", "Oral Supplements"}],
      [name |-> "oral supplements & skincare products", label |-> <<111, 114, 97, 108, 32, 115, 117, 112, 112, 108, 101, 109, 101, 110, 116, 115, 32, 38, 32, 115, 107, 105, 110, 99, 97, 114, 101, 32, 112, 114, 111, 100, 117, 99, 116, 115>>,
       categories |-> {"Oral Supplements", "Skincare Products"}],
      [name |-> "skincare products", label |-> <<115, 107, 105, 110, 99, 97, 114, 101, 32, 112, 114, 111, 100, 117, 99, 116, 115>>,
       categories |-> {"Skincare Products"}],
      [name |-> "oral supplements", label |-> <<111, 114, 97, 108, 32, 115, 117, 112, 112, 108, 101, 109, 101, 110, 116, 115>>,
       categories |-> {"Oral Supplements"}],
      [name |-> "oral supplement", label |-> <<111, 114, 97, 108, 32, 115, 117, 112, 112, 108, 101, 109, 101, 110, 116>>,
       categories |-> {"Oral Supplements"}],
      [name |-> "medical devices", label |-> <<109, 101, 100, 105, 99, 97, 108, 32, 100, 101, 118, 105, 99, 101, 115>>,
       categories |-> {"Medical Devices"}],
      [name |-> "medical device", label |-> <<109, 101, 100, 105, 99, 97, 108, 32, 100, 101, 118, 105, 99, 101>>,
       categories |-> {"Medical Devices"}],
      [name |-> "medical devices & skincare products", label |-> <<109, 101, 100, 105, 99, 97, 108, 32, 100, 101, 118, 105, 99, 101, 115, 32, 38, 32, 115, 107, 105, 110, 99, 97, 114, 101, 32, 112, 114, 111, 100, 117, 99, 116, 115>>,
       categories |-> {"Medical Devices", "Skincare Products"}],
      [name |-> "skincare products & medical devices", label |-> <<115, 107, 105, 110, 99, 97, 114, 101, 32, 112, 114, 111, 100, 117, 99, 116, 115, 32, 38, 32, 109, 101, 100, 105, 99, 97, 108, 32, 100, 101, 118, 105, 99, 101, 115>>,
       categories |-> {"Skincare Products", "Medical Devices"}],
      [name |-> "pharmaceutical products", label |-> <<112, 104, 97, 114, 109, 97, 99, 101, 117, 116, 105, 99, 97, 108, 32, 112, 114, 111, 100, 117, 99, 116, 115>>,
       categories |-> {"Pharmaceutical Products"}]>>

\* self.brand_categories, in the order of the dictionary.
brand_categories ==
    <<[name |-> "profhilo", brand |-> <<112, 114, 111, 102, 104, 105, 108, 111>>,
       category |-> "Medical Devices"],
      [name |-> "viscoderm", brand |-> <<118, 105, 115, 99, 111, 100, 101, 114, 109>>,
       category |-> "Medical Devices"],
      [name |-> "nucleofill", brand |-> <<110, 117, 99, 108, 101, 111, 102, 105, 108, 108>>,
       category |-> "Medical Devices"],
      [name |-> "aliaxin", brand |-> <<97, 108, 105, 97, 120, 105, 110>>,
       category |-> "Medical Devices"],
      [name |-> "belotero", brand |-> <<98, 101, 108, 111, 116, 101, 114, 111>>,
       category |-> "Medical Devices"],
      [name |-> "radiesse", brand |-> <<114, 97, 100, 105, 101, 115, 115, 101>>,
       category |-> "Medical Devices"],
      [name |-> "juvederm", brand |-> <<106, 117, 118, 101, 100, 101, 114, 109>>,
       category |-> "Medical Devices"],
      [name |-> "restylane", brand |-> <<114, 101, 115, 116, 121, 108, 97, 110, 101>>,
       category |-> "Medical Devices"],
      [name |-> "teosyal", brand |-> <<116, 101, 111, 115, 121, 97, 108>>,
       category |-> "Medical Devices"],
      [name |-> "sculptra", brand |-> <<115, 99, 117, 108, 112, 116, 114, 97>>,
       category |-> "Medical Devices"],
      [name |-> "ellanse", brand |-> <<101, 108, 108, 97, 110, 115, 101>>,
       category |-> "Medical Devices"],
      [name |-> "sunekos", brand |-> <<115, 117, 110, 101, 107, 111, 115>>,
       category |-> "Medical Devices"],
      [name |-> "jalupro", brand |-> <<106, 97, 108, 117, 112, 114, 111>>,
       category |-> "Medical Devices"],
      [name |-> "lumi eyes", brand |-> <<108, 117, 109, 105, 32, 101, 121, 101, 115>>,
       category |-> "Medical Devices"],
      [name |-> "ejal", brand |-> <<101, 106, 97, 108>>,
       category |-> "Medical Devices"],
      [name |-> "xela rederm", brand |-> <<120, 101, 108, 97, 32, 114, 101, 100, 101, 114, 109>>,
       category |-> "Medical Devices"],
      [name |-> "haenkenium", brand |-> <<104, 97, 101, 110, 107, 101, 110, 105, 117, 109>>,
       category |-> "Skincare Products"],
      [name |-> "heliocare", brand |-> <<104, 101, 108, 105, 111, 99, 97, 114, 101>>,
       category |-> "Skincare Products"],
      [name |-> "endocare", brand |-> <<101, 110, 100, 111, 99, 97, 114, 101>>,
       category |-> "Skincare Products"],
      [name |-> "neostrata", brand |-> <<110, 101, 111, 115, 116, 114, 97, 116, 97>>,
       category |-> "Skincare Products"],
      [name |-> "isdin", brand |-> <<105, 115, 100, 105, 110>>,
       category |-> "Skincare Products"],
      [name |-> "skinceuticals", brand |-> <<115, 107, 105, 110, 99, 101, 117, 116, 105, 99, 97, 108, 115>>,
       category |-> "Skincare Products"],
      [name |-> "obagi", brand |-> <<111, 98, 97, 103, 105>>,
       category |-> "Skincare Products"],
      [name |-> "zo skin health", brand |-> <<122, 111, 32, 115, 107, 105, 110, 32, 104, 101, 97, 108, 116, 104>>,
       category |-> "Skincare Products"],
      [name |-> "dermaceutic", brand |-> <<100, 101, 114, 109, 97, 99, 101, 117, 116, 105, 99>>,
       category |-> "Skincare Products"],
      [name |-> "biopelle", brand |-> <<98, 105, 111, 112, 101, 108, 108, 101>>,
       category |-> "Skincare Products"],
      [name |-> "imedeen", brand |-> <<105, 109, 101, 100, 101, 101, 110>>,
       category |-> "Oral Supplements"],
      [name |-> "perfectil", brand |-> <<112, 101, 114, 102, 101, 99, 116, 105, 108>>,
       category |-> "Oral Supplements"],
      [name |-> "nutrafol", brand |-> <<110, 117, 116, 114, 97, 102, 111, 108>>,
       category |-> "Oral Supplements"],
      [name |-> "viviscal", brand |-> <<118, 105, 118, 105, 115, 99, 97, 108>>,
       category |-> "Oral Supplements"],
      [name |-> "collagen supplements", brand |-> <<99, 111, 108, 108, 97, 103, 101, 110, 32, 115, 117, 112, 112, 108, 101, 109, 101, 110, 116, 115>>,
       category |-> "Oral Supplements"]>>

\* self.keyword_patterns: for each category its patterns in order.  A pattern
\* is \bA\b (word), \bA (prefix), \bA\b.*\bB\b (then), \b\d+A\b.*\bB\b (dosage),
\* \bA.?B\b (optional) or \bA\s*B\b (spaced).
keyword_patterns ==
    <<[category |-> "Medical Devices", patterns |->
        <<[name |-> "\\bsyringe\\b", pattern |->
              [kind |-> "word", a |-> <<115, 121, 114, 105, 110, 103, 101>>, b |-> <<>>]],
          [name |-> "\\binjectable\\b", pattern |->
              [kind |-> "word", a |-> <<105, 110, 106, 101, 99, 116, 97, 98, 108, 101>>, b |-> <<>>]],
          [name |-> "\\bfiller\\b", pattern |->
              [kind |-> "word", a |-> <<102, 105, 108, 108, 101, 114>>, b |-> <<>>]],
          [name |-> "\\bimplant\\b", pattern |->
              [kind |-> "word", a |-> <<105, 109, 112, 108, 97, 110, 116>>, b |-> <<>>]],
          [name |-> "\\b\\d+mg\\b.*\\bml\\b", pattern |->
              [kind |-> "dosage", a |-> <<109, 103>>, b |-> <<109, 108>>]],
          [name |-> "\\bhyaluronic acid\\b", pattern |->
              [kind |-> "word", a |-> <<104, 121, 97, 108, 117, 114, 111, 110, 105, 99, 32, 97, 99, 105, 100>>, b |-> <<>>]],
          [name |-> "\\bbiorevital", pattern |->
              [kind |-> "prefix", a |-> <<98, 105, 111, 114, 101, 118, 105, 116, 97, 108>>, b |-> <<>>]],
          [name |-> "\\bskin booster\\b", pattern |->
              [kind |-> "word", a |-> <<115, 107, 105, 110, 32, 98, 111, 111, 115, 116, 101, 114>>, b |-> <<>>]],
          [name |-> "\\bmesotherapy\\b", pattern |->
              [kind |-> "word", a |-> <<109, 101, 115, 111, 116, 104, 101, 114, 97, 112, 121>>, b |-> <<>>]],
          [name |-> "\\bpeel\\b", pattern |->
              [kind |-> "word", a |-> <<112, 101, 101, 108>>, b |-> <<>>]],
          [name |-> "\\blaser\\b", pattern |->
              [kind |-> "word", a |-> <<108, 97, 115, 101, 114>>, b |-> <<>>]],
          [name |-> "\\bdevice\\b", pattern |->
              [kind |-> "word", a |-> <<100, 101, 118, 105, 99, 101>>, b |-> <<>>]],
          [name |-> "\\bsterile\\b", pattern |->
              [kind |-> "word", a |-> <<115, 116, 101, 114, 105, 108, 101>>, b |-> <<>>]],
          [name |-> "\\bmedical\\b", pattern |->
              [kind |-> "word", a |-> <<109, 101, 100, 105, 99, 97, 108>>, b |-> <<>>]]>>],
      [category |-> "Skincare Products", patterns |->
        <<[name |-> "\\bcream\\b", pattern |->
              [kind |-> "word", a |-> <<99, 114, 101, 97, 109>>, b |-> <<>>]],
          [name |-> "\\bserum\\b", pattern |->
              [kind |-> "word", a |-> <<115, 101, 114, 117, 109>>, b |-> <<>>]],
          [name |-> "\\blotion\\b", pattern |->
              [kind |-> "word", a |-> <<108, 111, 116, 105, 111, 110>>, b |-> <<>>]],
          [name |-> "\\bmoisturiz", pattern |->
              [kind |-> "prefix", a |-> <<109, 111, 105, 115, 116, 117, 114, 105, 122>>, b |-> <<>>]],
          [name |-> "\\bcleanser\\b", pattern |->
              [kind |-> "word", a |-> <<99, 108, 101, 97, 110, 115, 101, 114>>, b |-> <<>>]],
          [name |-> "\\btoner\\b", pattern |->
              [kind |-> "word", a |-> <<116, 111, 110, 101, 114>>, b |-> <<>>]],
          [name |-> "\\bmask\\b", pattern |->
              [kind |-> "word", a |-> <<109, 97, 115, 107>>, b |-> <<>>]],
          [name |-> "\\bsunscreen\\b", pattern |->
              [kind |-> "word", a |-> <<115, 117, 110, 115, 99, 114, 101, 101, 110>>, b |-> <<>>]],
          [name |-> "\\bspf\\b", pattern |->
              [kind |-> "word", a |-> <<115, 112, 102>>, b |-> <<>>]],
          [name |-> "\\banti.?aging\\b", pattern |->
              [kind |-> "optional", a |-> <<97, 110, 116, 105>>, b |-> <<97, 103, 105, 110, 103>>]],
          [name |-> "\\bskincare\\b", pattern |->
              [kind |-> "word", a |-> <<115, 107, 105, 110, 99, 97, 114, 101>>, b |-> <<>>]],
          [name |-> "\\bskin\\s*care\\b", pattern |->
              [kind |-> "spaced", a |-> <<115, 107, 105, 110>>, b |-> <<99, 97, 114, 101>>]],
          [name |-> "\\btopical\\b", pattern |->
              [kind |-> "word", a |-> <<116, 111, 112, 105, 99, 97, 108>>, b |-> <<>>]],
          [name |-> "\\bcosmetic\\b", pattern |->
              [kind |-> "word", a |-> <<99, 111, 115, 109, 101, 116, 105, 99>>, b |-> <<>>]]>>],
      [category |-> "Oral Supplements", patterns |->
        <<[name |-> "\\bsupplement\\b", pattern |->
              [kind |-> "word", a |-> <<115, 117, 112, 112, 108, 101, 109, 101, 110, 116>>, b |-> <<>>]],
          [name |-> "\\bcapsule\\b", pattern |->
              [kind |-> "word", a |-> <<99, 97, 112, 115, 117, 108, 101>>, b |-> <<>>]],
          [name |-> "\\btablet\\b", pattern |->
              [kind |-> "word", a |-> <<116, 97, 98, 108, 101, 116>>, b |-> <<>>]],
          [name |-> "\\bvitamin\\b", pattern |->
              [kind |-> "word", a |-> <<118, 105, 116, 97, 109, 105, 110>>, b |-> <<>>]],
          [name |-> "\\bcollagen\\b.*\\boral\\b", pattern |->
              [kind |-> "then", a |-> <<99, 111, 108, 108, 97, 103, 101, 110>>, b |-> <<111, 114, 97, 108>>]],
          [name |-> "\\boral\\b.*\\bcollagen\\b", pattern |->
              [kind |-> "then", a |-> <<111, 114, 97, 108>>, b |-> <<99, 111, 108, 108, 97, 103, 101, 110>>]],
          [name |-> "\\bnutrition\\b", pattern |->
              [kind |-> "word", a |-> <<110, 117, 116, 114, 105, 116, 105, 111, 110>>, b |-> <<>>]],
          [name |-> "\\bdietary\\b", pattern |->
              [kind |-> "word", a |-> <<100, 105, 101, 116, 97, 114, 121>>, b |-> <<>>]],
          [name |-> "\\bpill\\b", pattern |->
              [kind |-> "word", a |-> <<112, 105, 108, 108>>, b |-> <<>>]],
          [name |-> "\\bsoftgel\\b", pattern |->
              [kind |-> "word", a |-> <<115, 111, 102, 116, 103, 101, 108>>, b |-> <<>>]]>>],
      [category |-> "Pharmaceutical Products", patterns |->
        <<[name |-> "\\bdrug\\b", pattern |->
              [kind |-> "word", a |-> <<100, 114, 117, 103>>, b |-> <<>>]],
          [name |-> "\\bpharmaceutical\\b", pattern |->
              [kind |-> "word", a |-> <<112, 104, 97, 114, 109, 97, 99, 101, 117, 116, 105, 99, 97, 108>>, b |-> <<>>]],
          [name |-> "\\bmedicine\\b", pattern |->
              [kind |-> "word", a |-> <<109, 101, 100, 105, 99, 105, 110, 101>>, b |-> <<>>]],
          [name |-> "\\bprescription\\b", pattern |->
              [kind |-> "word", a |-> <<112, 114, 101, 115, 99, 114, 105, 112, 116, 105, 111, 110>>, b |-> <<>>]]>>]>>

Profhilo == <<112, 114, 111, 102, 104, 105, 108, 111>>

Haenkenium == <<104, 97, 101, 110, 107, 101, 110, 105, 117, 109>>

Cream == <<99, 114, 101, 97, 109>>

Syringe == <<115, 121, 114, 105, 110, 103, 101>>

\* 'haenkenium cream'
HaenkeniumCream == Haenkenium \o <<32>> \o Cream

\* r'profhilo\s+haenkenium\s+cream'
ProfhiloHaenkeniumCream(s) ==
    \E i \in 1..Len(s) :
        LET h == i + Len(Profhilo) + SpaceRun(s, i + Len(Profhilo))
            c == h + Len(Haenkenium) + SpaceRun(s, h + Len(Haenkenium))
        IN  /\ At(s, Profhilo, i)
            /\ SpaceRun(s, i + Len(Profhilo)) >= 1
            /\ At(s, Haenkenium, h)
            /\ SpaceRun(s, h + Len(Haenkenium)) >= 1
            /\ At(s, Cream, c)

\* r'profhilo.*syringe'
ProfhiloSyringe(s) ==
    \E i \in 1..Len(s) :
        /\ At(s, Profhilo, i)
        /\ \E j \in (i + Len(Profhilo))..Len(s) : At(s, Syringe, j)

\* self.compound_rules, in order: which of them match.
CompoundMatches(s) ==
    (IF ProfhiloHaenkeniumCream(s)
     THEN <<[tier |-> "compound", name |-> "profhilo\\s+haenkenium\\s+cream",
             categories |-> {"Skincare Products"}]>>
     ELSE <<>>)
    \o (IF ProfhiloSyringe(s)
        THEN <<[tier |-> "compound", name |-> "profhilo.*syringe",
                categories |-> {"Medical Devices"}]>>
        ELSE <<>>)

\* STEP 0 with the first contained label only.
VerbatimMatches_FirstOnly(s) ==
    LET hits == SelectSeq(verbatim_labels, LAMBDA l : Contains(s, l.label))
    IN  IF hits = <<>> THEN <<>>
        ELSE <<[tier |-> "verbatim", name |-> hits[1].name, categories |-> hits[1].categories]>>

\* STEP 0: "for label, categories in self.verbatim_labels.items(): if label
\* in desc_lower".
VerbatimMatches(s) ==
    LET hits == SelectSeq(verbatim_labels, LAMBDA l : Contains(s, l.label))
    IN  [i \in 1..Len(hits) |->
            [tier |-> "verbatim", name |-> hits[i].name, categories |-> hits[i].categories]]

\* Step 2: "for brand, category in self.brand_categories.items(): if brand
\* in desc_lower".
BrandMatches(s) ==
    LET hits == SelectSeq(brand_categories, LAMBDA b : Contains(s, b.brand))
    IN  [i \in 1..Len(hits) |->
            [tier |-> "brand", name |-> hits[i].name, categories |-> {hits[i].category}]]

\* Step 3: for each category the first of its patterns that matches ("break").
KeywordMatches(s) ==
    LET firstHit(k) ==
            LET hits == SelectSeq(keyword_patterns[k].patterns,
                                  LAMBDA p : Search(p.pattern, s))
            IN  IF hits = <<>> THEN <<>>
                ELSE <<[tier |-> "keyword", name |-> hits[1].name,
                        categories |-> {keyword_patterns[k].category}]>>
    IN  firstHit(1) \o firstHit(2) \o firstHit(3) \o firstHit(4)

\* The categories the matches add to matched_categories.
MatchedCategories(matches) == UNION {matches[i].categories : i \in 1..Len(matches)}

\* Step 4 with the keyword test always failing.
HasMedicalDeviceKeyword_Never(matches) == FALSE

\* has_medical_device_keyword: a matched keyword pattern whose text holds
\* 'syringe' or 'injectable'; of keyword_patterns these are the two below.
HasMedicalDeviceKeyword(matches) ==
    \E i \in 1..Len(matches) :
        /\ matches[i].tier = "keyword"
        /\ matches[i].name \in {"\\bsyringe\\b", "\\binjectable\\b"}

\* Step 4: Medical Devices is discarded for 'haenkenium cream' without a
\* syringe / injectable keyword.
HandleSpecialCases(cats, matches, s) ==
    IF /\ "Medical Devices" \in cats
       /\ "Skincare Products" \in cats
       /\ Contains(s, HaenkeniumCream)
       /\ ~HasMedicalDeviceKeyword(matches)
    THEN cats \ {"Medical Devices"}
    ELSE cats

Min(a, b) == IF a <= b THEN a ELSE b

Count(matches, tier) == Cardinality({i \in 1..Len(matches) : matches[i].tier = tier})

\* Confidences in hundredths.
VerbatimConfidence == 95

EmptyConfidence == 0

NoMatchConfidence == 20

BaseConfidence == 50

BrandConfidence == 20

KeywordConfidence == 10

CompoundConfidence == 25

FullConfidence == 100

\* _calculate_confidence.
_calculate_confidence(matches) ==
    IF matches = <<>> THEN NoMatchConfidence
    ELSE Min(BaseConfidence + Count(matches, "brand") * BrandConfidence
                 + Count(matches, "keyword") * KeywordConfidence
                 + Count(matches, "compound") * CompoundConfidence,
             FullConfidence)

\* sorted(list(matched_categories), key=lambda x: x.value).
CategoryOrder ==
    <<"Medical Devices", "Oral Supplements", "Pharmaceutical Products",
      "Skincare Products", "Unknown">>

SortedCategories(cats) == SelectSeq(CategoryOrder, LAMBDA c : c \in cats)

ClassificationResult(cats, confidence, matches) ==
    [categories |-> cats, confidence |-> confidence,
     matched_patterns |-> [i \in 1..Len(matches) |->
                              [tier |-> matches[i].tier, name |-> matches[i].name]]]

\* ProductClassifier.classify (the reasoning text is left out).
classify(text) ==
    IF text = <<>> THEN ClassificationResult(<<"Unknown">>, EmptyConfidence, <<>>)
    ELSE LET desc_lower == Strip(Lower(text))
             verbatim == VerbatimMatches(desc_lower)
             matches == CompoundMatches(desc_lower) \o BrandMatches(desc_lower)
                            \o KeywordMatches(desc_lower)
             cats == HandleSpecialCases(MatchedCategories(matches), matches, desc_lower)
         IN  IF MatchedCategories(verbatim) # {}
             THEN ClassificationResult(SortedCategories(MatchedCategories(verbatim)),
                                       VerbatimConfidence, verbatim)
             ELSE IF cats = {}
                  THEN ClassificationResult(<<"Unknown">>, NoMatchConfidence, matches)
                  ELSE ClassificationResult(SortedCategories(cats),
                                            _calculate_confidence(matches), matches)

\* ------------------------------------------------------------------------
\* Specification: one description classified
\* ------------------------------------------------------------------------

MaxPhrases == 3

\* What a description is made of: "Profhilo", "Haenkenium Cream", "Syringe",
\* "syringes", "Injectable", "filler", "SKINCARE PRODUCTS", "Medical
\* Devices", "Oral Supplements", "Heliocare", "64mg 2ml", "capsule".
Phrases ==
    {<<80, 114, 111, 102, 104, 105, 108, 111>>,
     <<72, 97, 101, 110, 107, 101, 110, 105, 117, 109, 32, 67, 114, 101, 97, 109>>,
     <<83, 121, 114, 105, 110, 103, 101>>,
     <<115, 121, 114, 105, 110, 103, 101, 115>>,
     <<73, 110, 106, 101, 99, 116, 97, 98, 108, 101>>,
     <<102, 105, 108, 108, 101, 114>>,
     <<83, 75, 73, 78, 67, 65, 82, 69, 32, 80, 82, 79, 68, 85, 67, 84, 83>>,
     <<77, 101, 100, 105, 99, 97, 108, 32, 68, 101, 118, 105, 99, 101, 115>>,
     <<79, 114, 97, 108, 32, 83, 117, 112, 112, 108, 101, 109, 101, 110, 116, 115>>,
     <<72, 101, 108, 105, 111, 99, 97, 114, 101>>,
     <<6, 4, 109, 103, 32, 2, 109, 108>>,
     <<99, 97, 112, 115, 117, 108, 101>>}

\* " ".join(phrases).
RECURSIVE JoinSpace(_)
JoinSpace(phrases) ==
    IF phrases = <<>> THEN <<>>
    ELSE IF Len(phrases) = 1 THEN phrases[1]
    ELSE phrases[1] \o <<32>> \o JoinSpace(Tail(phrases))

Descriptions == {JoinSpace(l) : l \in UNION {[1..n -> Phrases] : n \in 0..MaxPhrases}}

ClassInit ==
    /\ description \in Descriptions
    /\ classification = <<>>
    /\ class_done = FALSE
    /\ AggIdle /\ MatchIdle /\ ReconIdle /\ ValIdle /\ PipeIdle
    /\ ExtIdle /\ SessIdle /\ LimIdle /\ AuditIdle /\ BrandIdle /\ NormIdle /\ OutIdle

Classify ==
    /\ ~class_done
    /\ classification' = classify(description)
    /\ class_done' = TRUE
    /\ UNCHANGED description
    /\ UNCHANGED <<aggVars, matchVars, reconVars, valVars, pipeVars, extVars, sessVars,
                   limVars, auditVars, brandVars, normVars, outVars>>

ClassNext == Classify

SpecClassify == ClassInit /\ [][ClassNext]_vars

\* ------------------------------------------------------------------------
\* Properties of ProductClassifier
\* ------------------------------------------------------------------------

DescLower == Strip(Lower(description))

\* The label phrases the description contains.
ContainedLabels ==
    {i \in 1..Len(verbatim_labels) : Contains(DescLower, verbatim_labels[i].label)}

ResultCategories == Range(classification.categories)

OnlyVerbatimPatterns ==
    \A i \in 1..Len(classification.matched_patterns) :
        classification.matched_patterns[i].tier = "verbatim"

\* C23: for a description that contains a verbatim label phrase, the
\* confidence is at least 0.9 and the category set is exactly the set mapped
\* to that phrase, with nothing from the compound, brand or keyword rules.
C23_VerbatimExact ==
    (class_done /\ ContainedLabels # {}) =>
        /\ classification.confidence >= 90
        /\ \A i \in ContainedLabels : ResultCategories = verbatim_labels[i].categories
        /\ OnlyVerbatimPatterns

\* C23 as the code has it: the category set is the union of the sets mapped
\* to the label phrases the description contains.
C23_VerbatimUnion ==
    (class_done /\ ContainedLabels # {}) =>
        /\ classification.confidence >= 90
        /\ ResultCategories = UNION {verbatim_labels[i].categories : i \in ContainedLabels}
        /\ OnlyVerbatimPatterns

\* "Profhilo SKINCARE PRODUCTS capsule": a label next to a brand and a
\* keyword of other categories.
C23_Witness ==
    /\ class_done
    /\ description = <<80, 114, 111, 102, 104, 105, 108, 111>> \o <<32>>
           \o <<83, 75, 73, 78, 67, 65, 82, 69, 32, 80, 82, 79, 68, 85, 67, 84, 83>> \o <<32>>
           \o <<99, 97, 112, 115, 117, 108, 101>>
    /\ classification.categories = <<"Skincare Products">>
    /\ classification.confidence = VerbatimConfidence

\* The description names a brand of Medical Devices.
HasDeviceBrand ==
    \E i \in 1..Len(brand_categories) :
        /\ brand_categories[i].category = "Medical Devices"
        /\ Contains(DescLower, brand_categories[i].brand)

\* A device keyword, syringe or injectable, is present.
HasDeviceKeyword ==
    \E i \in 1..Len(DescLower) :
        \/ WordAt(DescLower, Syringe, i)
        \/ WordAt(DescLower, <<105, 110, 106, 101, 99, 116, 97, 98, 108, 101>>, i)

HaenkeniumCase ==
    /\ class_done
    /\ ContainedLabels = {}
    /\ HasDeviceBrand
    /\ Contains(DescLower, HaenkeniumCream)

HaenkeniumCreamAlone ==
    /\ HaenkeniumCase
    /\ ~HasDeviceKeyword
    /\ description = <<80, 114, 111, 102, 104, 105, 108, 111, 32, 72, 97, 101, 110, 107, 101,
                       110, 105, 117, 109, 32, 67, 114, 101, 97, 109, 32, 102, 105, 108, 108,
                       101, 114>>
    /\ classification.categories = <<"Skincare Products">>

\* ------------------------------------------------------------------------
\* Properties of the shipment built from a file name and a ledger
\* ------------------------------------------------------------------------

\* The shipments _create_inbound_shipment builds for the file name when
\* extract_pdo_numbers listed the numbers as nums, from a document without
\* pages.
ShipmentsFor(nums) ==
    _create_inbound_shipment(match_filename, nums, aggregate_inbound(<<>>, <<>>),
                             match_pdo_to_filename(nums, match_pdo_data))

\* C30: for a file name naming several numbers that match ledger records,
\* the reference string and the currency of the shipment built are the same
\* whatever order extract_pdo_numbers listed the numbers in.
C30_BuildDeterministic ==
    (match_done /\ Len(match_result) >= 2) =>
        \A nums \in extract_pdo_numbers(match_filename) :
            \A a \in ShipmentsFor(match_pdo_numbers), b \in ShipmentsFor(nums) :
                /\ a.reference = b.reference
                /\ a.currency = b.currency

\* Shipment k was built from several distinct records, all still in the
\* ledger.
BuiltFromSeveral(k) ==
    /\ Cardinality(BuiltFrom(k)) >= 2
    /\ BuiltFrom(k) \subseteq Range(self_sap_data)

\* Shipment k after reconcile_inbound with auto-apply against the ledger.
Reconciled(k) ==
    reconcile_inbound(DefaultEngine, self_inbound_shipments[k], self_sap_data, "None").shipment

\* C29: a shipment built from several matched ledger records keeps its
\* combined total value and region splits when reconcile_inbound is run with
\* auto-apply against the same ledger.
C29_ReconcileKeepsCombined ==
    \A k \in 1..Len(self_inbound_shipments) :
        BuiltFromSeveral(k) =>
            /\ Reconciled(k).total_value = self_inbound_shipments[k].total_value
            /\ Reconciled(k).country_splits = self_inbound_shipments[k].country_splits

\* ------------------------------------------------------------------------
\* pipeline.py: get_result
\* ------------------------------------------------------------------------

\* PipelineResult as get_result builds it: errors and warnings are not
\* passed and keep their default, the empty list (the elapsed time is left
\* out).
get_result(inbound, outbound, sap_data) ==
    [success |-> Len(inbound) > 0 \/ Len(outbound) > 0,
     inbound_shipments |-> inbound,
     outbound_shipments |-> outbound,
     sap_data |-> sap_data,
     errors |-> <<>>,
     warnings |-> <<>>]

\* C27: the error of every file that failed in the stage that ran last is
\* among the errors of the PipelineResult get_result hands back.
C27_ErrorsInResult ==
    \A i \in 1..Len(sess_errors) :
        \E j \in 1..Len(get_result(sess_inbound, <<>>, sess_sap_data).errors) :
            get_result(sess_inbound, <<>>, sess_sap_data).errors[j] = sess_errors[i]

\* ------------------------------------------------------------------------
\* utils/helpers.py: extract_itr_number; pipeline.py: process_outbound_pdfs
\* ------------------------------------------------------------------------

\* 'ITR' or 'SOM' in either case (re.IGNORECASE) at position i.
IsItrAt(s, i) ==
    /\ i + 2 <= Len(s)
    /\ Lower(SubSeq(s, i, i + 2)) \in {<<105, 116, 114>>, <<115, 111, 109>>}

\* The match of r'(ITR|SOM)\s*(\d+)' at position i: digits follow the spaces.
ItrMatchAt(s, i) == IsItrAt(s, i) /\ DigitRun(s, i + 3 + SpaceRun(s, i + 3)) >= 1

\* extract_itr_number: f"{prefix} {number}" of the leftmost match, or <<>>
\* for None.
extract_itr_number(text) ==
    LET hits == {i \in 1..Len(text) : ItrMatchAt(text, i)}
    IN  IF hits = {} THEN <<>>
        ELSE LET i == CHOOSE h \in hits : \A k \in hits : h <= k
                 d == i + 3 + SpaceRun(text, i + 3)
             IN  UpperText(SubSeq(text, i, i + 2)) \o <<32>>
                     \o SubSeq(text, d, d + DigitRun(text, d) - 1)

\* s.replace(' ', '').lower()
Squeezed(s) == Lower(SelectSeq(s, LAMBDA c : c # 32))

\* "itr_num.replace(' ', '').lower() in awb_name.replace(' ', '').lower()"
ItrInName(itr_num, awb_name) == Contains(Squeezed(awb_name), Squeezed(itr_num))

\* awb_extractions is the list of its items in insertion order.
ExtractionNames(ext) == {ext[i].name : i \in 1..Len(ext)}

\* awb_extractions[name] = result: an existing key keeps its position.
ExtractionPut(ext, name, result) ==
    IF name \in ExtractionNames(ext)
    THEN [i \in 1..Len(ext) |-> IF ext[i].name = name THEN [name |-> name, result |-> result]
                                 ELSE ext[i]]
    ELSE Append(ext, [name |-> name, result |-> result])

\* The shipment _create_outbound_shipment builds, for the fields that tell
\* which files it came from: invoice_number, invoice_file and awb_file
\* (the raw response of the AWB, "None" without one).
_create_outbound_shipment(filename, inv_result, awb_result) ==
    [invoice_number |-> IF extract_itr_number(filename) # <<>>
                        THEN extract_itr_number(filename) ELSE filename,
     invoice_file |-> filename,
     awb_file |-> awb_result]

\* "for awb_info in awb_files": page_to_base64 raises for a file that
\* cannot be rendered; extract_from_image returns its result.
RECURSIVE AwbLoop(_, _)
AwbLoop(st, files) ==
    IF files = <<>> THEN st
    ELSE AwbLoop(
             IF Head(files).kind = "ok"
             THEN [st EXCEPT !.awb_extractions =
                                 ExtractionPut(@, Head(files).name, Head(files).response)]
             ELSE [st EXCEPT !.errors =
                                 Append(@, <<"AWB extraction failed for", Head(files).name>>)],
             Tail(files))

\* "for awb_name, awb_result in awb_extractions.items(): if itr_num ... in
\* awb_name ...: break": the index of the first AWB that matches, or 0.
MatchingAwb(itr_num, ext) ==
    LET hits == {i \in 1..Len(ext) : ItrInName(itr_num, ext[i].name)}
    IN  IF itr_num = <<>> \/ hits = {} THEN 0
        ELSE CHOOSE i \in hits : \A k \in hits : i <= k

\* "for inv_info in invoice_files".
RECURSIVE InvoiceLoop(_, _)
InvoiceLoop(st, files) ==
    IF files = <<>> THEN st
    ELSE InvoiceLoop(
             IF Head(files).kind = "ok"
             THEN LET m == MatchingAwb(extract_itr_number(Head(files).name),
                                       st.awb_extractions)
                  IN  [st EXCEPT
                          !.matched_awbs =
                              IF m = 0 THEN @ ELSE @ \cup {st.awb_extractions[m].name},
                          !.shipments =
                              Append(@, _create_outbound_shipment(
                                            Head(files).name, Head(files).response,
                                            IF m = 0 THEN "None"
                                            ELSE st.awb_extractions[m].result))]
             ELSE [st EXCEPT !.errors =
                                 Append(@, <<"Invoice extraction failed for",
                                             Head(files).name>>)],
             Tail(files))

\* "for awb_name, awb_result in awb_extractions.items(): if awb_name not in
\* matched_awbs" from item n on.
RECURSIVE LeftoverLoop(_, _)
LeftoverLoop(st, n) ==
    IF n > Len(st.awb_extractions) THEN st
    ELSE LeftoverLoop(
             IF st.awb_extractions[n].name \notin st.matched_awbs
             THEN [st EXCEPT
                      !.shipments =
                          Append(@, _create_outbound_shipment(
                                        st.awb_extractions[n].name, "None",
                                        st.awb_extractions[n].result)),
                      !.warnings = Append(@, st.awb_extractions[n].name)]
             ELSE st,
             n + 1)

\* process_outbound_pdfs: the shipments, progress and locals it ends with.
process_outbound_pdfs(shipments, awbs, invoices) ==
    LeftoverLoop(
        InvoiceLoop(
            AwbLoop([shipments |-> shipments, errors |-> <<>>, warnings |-> <<>>,
                     awb_extractions |-> <<>>, matched_awbs |-> {}],
                    awbs),
            invoices),
        1)

\* ------------------------------------------------------------------------
\* Specification: one call of process_outbound_pdfs
\* ------------------------------------------------------------------------

MaxAwbs == 2

MaxInvoices == 2

\* "AWB ITR 2502027", "awb_som2502101", "AWB 7".
AwbName1 == <<65, 87, 66, 32, 73, 84, 82, 32, 2, 5, 0, 2, 0, 2, 7>>
AwbName2 == <<97, 119, 98, 95, 115, 111, 109, 2, 5, 0, 2, 1, 0, 1>>
AwbName3 == <<65, 87, 66, 32, 7>>

\* "ITR2502027_Invoice", "SOM 2502101 inv", "invoice".
InvoiceName1 == <<73, 84, 82, 2, 5, 0, 2, 0, 2, 7, 95, 73, 110, 118, 111, 105, 99, 101>>
InvoiceName2 == <<83, 79, 77, 32, 2, 5, 0, 2, 1, 0, 1, 32, 105, 110, 118>>
InvoiceName3 == <<105, 110, 118, 111, 105, 99, 101>>

PdfFile(name, kind, response) == [name |-> name, kind |-> kind, response |-> response]

\* The AWB uploads: one readable file per name, a second readable file that
\* has the first name, and a file that cannot be rendered.
AwbFiles ==
    {PdfFile(AwbName1, "ok", "awb-1"), PdfFile(AwbName2, "ok", "awb-2"),
     PdfFile(AwbName3, "ok", "awb-3"), PdfFile(AwbName1, "ok", "awb-1b"),
     PdfFile(AwbName1, "unreadable", "")}

InvoiceFiles ==
    {PdfFile(InvoiceName1, "ok", "inv-1"), PdfFile(InvoiceName2, "ok", "inv-2"),
     PdfFile(InvoiceName3, "ok", "inv-3"), PdfFile(InvoiceName1, "unreadable", "")}

OutInit ==
    /\ awb_files \in UNION {[1..n -> AwbFiles] : n \in 0..MaxAwbs}
    /\ invoice_files \in UNION {[1..n -> InvoiceFiles] : n \in 0..MaxInvoices}
    /\ self_outbound_shipments = <<>>
    /\ outbound_progress = [errors |-> <<>>, warnings |-> <<>>]
    /\ awb_extractions = <<>>
    /\ matched_awbs = {}
    /\ outbound_done = FALSE
    /\ AggIdle /\ MatchIdle /\ ReconIdle /\ ValIdle /\ PipeIdle
    /\ ExtIdle /\ SessIdle /\ LimIdle /\ AuditIdle /\ BrandIdle /\ NormIdle /\ ClassIdle

ProcessOutboundPdfs ==
    /\ ~outbound_done
    /\ LET st == process_outbound_pdfs(self_outbound_shipments, awb_files, invoice_files)
       IN  /\ self_outbound_shipments' = st.shipments
           /\ outbound_progress' = [errors |-> st.errors, warnings |-> st.warnings]
           /\ awb_extractions' = st.awb_extractions
           /\ matched_awbs' = st.matched_awbs
    /\ outbound_done' = TRUE
    /\ UNCHANGED <<awb_files, invoice_files>>
    /\ UNCHANGED <<aggVars, matchVars, reconVars, valVars, pipeVars, extVars, sessVars,
                   limVars, auditVars, brandVars, normVars, classVars>>

OutNext == ProcessOutboundPdfs

SpecOutbound == OutInit /\ [][OutNext]_vars

\* ------------------------------------------------------------------------
\* Properties of process_outbound_pdfs
\* ------------------------------------------------------------------------

\* The AWB files whose extraction succeeded, and the invoices processed
\* without failure.
ExtractedAwbs == {i \in 1..Len(awb_files) : awb_files[i].kind = "ok"}

ProcessedInvoices == {j \in 1..Len(invoice_files) : invoice_files[j].kind = "ok"}

\* Shipment k carries AWB file i: paired with an invoice whose ITR/SOM number
\* occurs in the AWB's file name, or as an AWB-only shipment.
Represents(k, i) ==
    LET sh == self_outbound_shipments[k]
    IN  /\ sh.awb_file = awb_files[i].response
        /\ \/ sh.invoice_file = awb_files[i].name
           \/ \E j \in ProcessedInvoices :
                 /\ sh.invoice_file = invoice_files[j].name
                 /\ ItrInName(extract_itr_number(invoice_files[j].name), awb_files[i].name)

\* The extracted AWB files that no invoice was paired with.
UnmatchedAwbs == {i \in ExtractedAwbs : awb_files[i].name \notin matched_awbs}

AwbsAccounted ==
    /\ \A i \in ExtractedAwbs :
          \E k \in 1..Len(self_outbound_shipments) : Represents(k, i)
    /\ Len(self_outbound_shipments)
           = Cardinality(ProcessedInvoices) + Cardinality(UnmatchedAwbs)

\* C28 for uploads whose AWB files have distinct names.
DistinctAwbsAccounted ==
    (outbound_done /\ NoDuplicates([i \in 1..Len(awb_files) |-> awb_files[i].name]))
        => AwbsAccounted

\* C28: every AWB whose extraction succeeded is in an appended shipment,
\* paired with an invoice naming its ITR/SOM number or AWB-only, and the
\* shipments appended are as many as the invoices processed without failure
\* plus the extracted AWBs matched by no invoice.
C28_EveryAwbAccounted == outbound_done => AwbsAccounted

====
